---- MODULE Spec2Model ----
(***************************************************************************)
(* Inventory-and-experiment engine of the chemistry-laboratory system.     *)
(*                                                                         *)
(* The repository holds two implementations of the same domain:            *)
(*   - the modular one: models.py, managers.py, laboratory_system.py       *)
(*     (definitions below carry the source names);                         *)
(*   - the monolithic script "Laboratorio Quimico.py" (definitions below   *)
(*     carry the source names prefixed with LQ_).                          *)
(* A behaviour runs one of the two; impl says which.                       *)
(*                                                                         *)
(* Quantities, costs and measured values are integers.  Calendar time is   *)
(* counted in ticks, TicksPerDay ticks per day; the first tick of a day is *)
(* midnight exactly.  The "date" field of a transaction and the free-text  *)
(* fields of a reagent do not influence any operation and are left out.    *)
(***************************************************************************)
EXTENDS Integers, Sequences, FiniteSets, TLC

VARIABLES
    impl,             \* "modular" or "monolith"
    now,              \* datetime.now(), in ticks
    reagents,         \* InventoryManager.reagents : name -> Reagent
    suppliers,        \* InventoryManager.suppliers (names)
    order_history,    \* InventoryManager.order_history
    recipes,          \* LaboratorySystem.recipes (modular) : name -> Recipe
    results_history,  \* ResultManager.results_history
    lab_reagents,     \* LaboratorySystem.reagents (monolith) : name -> Reagent
    lab_suppliers,    \* LaboratorySystem.suppliers (monolith)
    lab_recipes,      \* LaboratorySystem.recipes (monolith)
    experiments,      \* LaboratorySystem.experiments (monolith)
    experiment,       \* one Experiment object driven directly (record_result / validate_results)
    data_file,        \* the JSON document save_data last wrote (NoFile before)
    threads,          \* perform_experiment calls in progress, one per thread
    last              \* the last call: operation, arguments, returned outcome

vars == <<impl, now, reagents, suppliers, order_history, recipes, results_history,
          lab_reagents, lab_suppliers, lab_recipes, experiments, experiment,
          data_file, threads, last>>

modularVars == <<reagents, suppliers, order_history, recipes, results_history>>
monolithVars == <<lab_reagents, lab_suppliers, lab_recipes, experiments>>

----------------------------------------------------------------------------
(* Bounds of the model *)

MaxHist == 2          \* transactions kept per reagent (purchase + usage)
MaxExperiments == 1   \* experiments recorded
MaxOrders == 1        \* orders placed
MaxNow == 1           \* last clock tick
TicksPerDay == 1      \* clock resolution

----------------------------------------------------------------------------
(* Small helpers *)

Range(f) == {f[x] : x \in DOMAIN f}

RECURSIVE SumOver(_, _)
SumOver(S, f) ==
    IF S = {} THEN 0
    ELSE LET x == CHOOSE y \in S : TRUE IN f[x] + SumOver(S \ {x}, f)

\* dict with key k set to v (insert or overwrite)
Put(d, k, v) == [x \in DOMAIN d \cup {k} |-> IF x = k THEN v ELSE d[x]]

\* dict without key k
Del(d, k) == [x \in DOMAIN d \ {k} |-> d[x]]

EmptyDict == [x \in {} |-> 0]

\* the calendar day of a clock tick
DateOf(t) == t \div TicksPerDay

\* the tick of midnight of a calendar day (datetime.strptime(d, "%Y-%m-%d"))
Midnight(d) == d * TicksPerDay

NoDate == <<>>

\* outcome: "ok" for a call that returned True or a result, "fail" for one that
\* returned False, None or an error message, "raise" for an exception
Call(op, outcome, cause, name, amount) ==
    [op |-> op, outcome |-> outcome, cause |-> cause, name |-> name, amount |-> amount]

NoCall == Call("none", "ok", "none", "none", 0)

\* os.path.exists(data_file) is false
NoFile == [exists |-> FALSE]

\* no thread is inside a call
NoThreads == <<>>

\* a place_order call: the record of the call with the supplier argument
OrderCall(outcome, cause, name, amount, supplier_name) ==
    [op |-> "place_order", outcome |-> outcome, cause |-> cause, name |-> name,
     amount |-> amount, supplier_name |-> supplier_name]

----------------------------------------------------------------------------
(* Validator *)

validate_positive_number(value) == value > 0

----------------------------------------------------------------------------
(* models.py : Reagent *)

Transaction(amount, reason, new_level) ==
    [amount |-> amount, reason |-> reason, new_level |-> new_level]

NoReagent ==
    [name |-> "none", cost |-> 0, inventory |-> 0, min_threshold |-> 0,
     expiry_date |-> NoDate, purchase_history |-> <<>>, usage_history |-> <<>>]

\* Reagent.__init__: [ok, obj]; ok = FALSE stands for the ValueError
Reagent(name, cost, inventory, min_threshold, expiry_date) ==
    IF /\ validate_positive_number(cost)
       /\ validate_positive_number(inventory)
       /\ validate_positive_number(min_threshold)
    THEN [ok |-> TRUE,
          obj |-> [name |-> name, cost |-> cost, inventory |-> inventory,
                   min_threshold |-> min_threshold, expiry_date |-> expiry_date,
                   purchase_history |-> <<>>, usage_history |-> <<>>]]
    ELSE [ok |-> FALSE, obj |-> NoReagent]

update_inventory_threshold_floor(r, amount, reason) ==
    LET new_inventory == r.inventory + amount
        transaction == Transaction(amount, reason, new_inventory)
    IN IF new_inventory < r.min_threshold
       THEN [ok |-> FALSE, obj |-> r]
       ELSE [ok |-> TRUE,
             obj |-> [r EXCEPT !.inventory = new_inventory,
                               !.purchase_history =
                                   IF amount > 0 THEN Append(@, transaction) ELSE @,
                               !.usage_history =
                                   IF amount > 0 THEN @ ELSE Append(@, transaction)]]

update_inventory_tworecords(r, amount, reason) ==
    LET new_inventory == r.inventory + amount
        transaction == Transaction(amount, reason, new_inventory)
    IN IF new_inventory < 0
       THEN [ok |-> FALSE, obj |-> r]
       ELSE [ok |-> TRUE,
             obj |-> [r EXCEPT !.inventory = new_inventory,
                               !.purchase_history = Append(@, transaction),
                               !.usage_history = Append(@, transaction)]]

\* Reagent.update_inventory: [ok, obj]; ok is the returned bool
update_inventory(r, amount, reason) ==
    LET new_inventory == r.inventory + amount
        transaction == Transaction(amount, reason, new_inventory)
    IN IF new_inventory < 0
       THEN [ok |-> FALSE, obj |-> r]
       ELSE [ok |-> TRUE,
             obj |-> [r EXCEPT !.inventory = new_inventory,
                               !.purchase_history =
                                   IF amount > 0 THEN Append(@, transaction) ELSE @,
                               !.usage_history =
                                   IF amount > 0 THEN @ ELSE Append(@, transaction)]]

\* Reagent.is_expired: datetime.now() > expiry_date (midnight of the expiry day)
is_expired(r, t) ==
    IF r.expiry_date = NoDate THEN FALSE
    ELSE t > Midnight(r.expiry_date[1])

is_low_stock(r) == r.inventory <= r.min_threshold

----------------------------------------------------------------------------
(* Laboratorio Quimico.py : Reagent *)

LQ_Transaction(amount, old_level, new_level, reason) ==
    [amount |-> amount, old_level |-> old_level, new_level |-> new_level,
     reason |-> reason]

LQ_NoReagent ==
    [name |-> "none", cost |-> 0, inventory |-> 0, min_threshold |-> 0,
     expiry_date |-> NoDate, purchase_history |-> <<>>, usage_history |-> <<>>,
     orders |-> <<>>]

\* Reagent.__init__: [ok, obj]; ok = FALSE stands for the ValueError
LQ_Reagent(name, cost, inventory, min_threshold, expiry_date) ==
    IF /\ validate_positive_number(cost)
       /\ validate_positive_number(inventory)
       /\ validate_positive_number(min_threshold)
    THEN [ok |-> TRUE,
          obj |-> [name |-> name, cost |-> cost, inventory |-> inventory,
                   min_threshold |-> min_threshold, expiry_date |-> expiry_date,
                   purchase_history |-> <<>>, usage_history |-> <<>>,
                   orders |-> <<>>]]
    ELSE [ok |-> FALSE, obj |-> LQ_NoReagent]

LQ_update_inventory_purchases_only(r, amount, reason) ==
    LET old_inventory == r.inventory
        new_inventory == r.inventory + amount
        transaction == LQ_Transaction(amount, old_inventory, new_inventory, reason)
    IN [r EXCEPT !.inventory = new_inventory,
                 !.purchase_history = Append(@, transaction)]

\* Reagent.update_inventory: returns nothing, the reagent after the call
LQ_update_inventory(r, amount, reason) ==
    LET old_inventory == r.inventory
        new_inventory == r.inventory + amount
        transaction == LQ_Transaction(amount, old_inventory, new_inventory, reason)
    IN [r EXCEPT !.inventory = new_inventory,
                 !.purchase_history = IF amount > 0 THEN Append(@, transaction) ELSE @,
                 !.usage_history = IF amount > 0 THEN @ ELSE Append(@, transaction)]

\* Reagent.is_expired: today >= expiry, on calendar dates
LQ_is_expired(r, t) ==
    IF r.expiry_date = NoDate THEN FALSE
    ELSE DateOf(t) >= r.expiry_date[1]

LQ_is_low_stock(r) == r.inventory <= r.min_threshold

----------------------------------------------------------------------------
(* Python dict kept in insertion order: a sequence of objects keyed by .name *)

DictHas(d, n) == \E i \in DOMAIN d : d[i].name = n

DictGet(d, n) == d[CHOOSE i \in DOMAIN d : d[i].name = n]

\* d[n] = obj : an existing key keeps its position, a new key goes last
DictSet(d, n, obj) ==
    IF DictHas(d, n)
    THEN [i \in DOMAIN d |-> IF d[i].name = n THEN obj ELSE d[i]]
    ELSE Append(d, obj)

DictKeys(d) == {d[i].name : i \in DOMAIN d}

----------------------------------------------------------------------------
(* Recipes.  reagents is the dict in insertion order, a sequence of        *)
(* [name, amount]; expected_results maps a measurement to its range:       *)
(* [kind |-> "tuple", lo, hi] for a (min, max) pair, [kind |-> "list"]     *)
(* for the same pair read back from JSON, [kind |-> "float"] for the       *)
(* single number the monolithic menu stores.                               *)

TupleRange(lo, hi) == [kind |-> "tuple", lo |-> lo, hi |-> hi]

FloatRange(v) == [kind |-> "float", lo |-> v, hi |-> v]

Need(name, amount) == [name |-> name, amount |-> amount]

NoRecipe ==
    [name |-> "none", reagents |-> <<>>, procedure |-> <<>>, expected_results |-> EmptyDict]

\* models.py Recipe.__init__: [ok, obj]; ok = FALSE stands for the ValueError
\* (or the TypeError of unpacking a range that is no pair)
Recipe(name, reagents_, procedure, expected_results) ==
    IF \/ reagents_ = <<>>
       \/ procedure = <<>>
       \/ \E m \in DOMAIN expected_results :
             \/ expected_results[m].kind \notin {"tuple", "list"}
             \/ expected_results[m].lo > expected_results[m].hi
    THEN [ok |-> FALSE, obj |-> NoRecipe]
    ELSE [ok |-> TRUE,
          obj |-> [name |-> name, reagents |-> reagents_, procedure |-> procedure,
                   expected_results |-> expected_results]]

\* Laboratorio Quimico.py Recipe.__init__
LQ_Recipe(name, reagents_, expected_results, procedure) ==
    IF \/ reagents_ = <<>>
       \/ DOMAIN expected_results = {}
    THEN [ok |-> FALSE, obj |-> NoRecipe]
    ELSE [ok |-> TRUE,
          obj |-> [name |-> name, reagents |-> reagents_, procedure |-> procedure,
                   expected_results |-> expected_results]]

RECURSIVE validate_reagents_from(_, _, _, _)
validate_reagents_from(recipe, available_reagents, t, i) ==
    IF i > Len(recipe.reagents) THEN TRUE
    ELSE LET reagent_name == recipe.reagents[i].name
             required_amount == recipe.reagents[i].amount
         IN IF reagent_name \notin DOMAIN available_reagents THEN FALSE
            ELSE IF \/ available_reagents[reagent_name].inventory < required_amount
                    \/ is_expired(available_reagents[reagent_name], t)
                 THEN FALSE
                 ELSE validate_reagents_from(recipe, available_reagents, t, i + 1)

validate_reagents_noexpiry(recipe, available_reagents, t) ==
    \A i \in DOMAIN recipe.reagents :
        /\ recipe.reagents[i].name \in DOMAIN available_reagents
        /\ available_reagents[recipe.reagents[i].name].inventory >= recipe.reagents[i].amount

\* models.py Recipe.validate_reagents, called at clock reading t
validate_reagents(recipe, available_reagents, t) ==
    validate_reagents_from(recipe, available_reagents, t, 1)

RECURSIVE calculate_total_cost_from(_, _, _, _)
\* the loop of calculate_total_cost from reagent i on, total_cost so far:
\* [raised, ret]; raised = TRUE is the ValueError of a missing reagent
calculate_total_cost_from(recipe, available_reagents, i, total_cost) ==
    IF i > Len(recipe.reagents) THEN [raised |-> FALSE, ret |-> total_cost]
    ELSE LET reagent_name == recipe.reagents[i].name
             amount == recipe.reagents[i].amount
         IN IF reagent_name \notin DOMAIN available_reagents
            THEN [raised |-> TRUE, ret |-> 0]
            ELSE calculate_total_cost_from(
                     recipe, available_reagents, i + 1,
                     total_cost + available_reagents[reagent_name].cost * amount)

RECURSIVE calculate_total_cost_skipping_from(_, _, _, _)
calculate_total_cost_skipping_from(recipe, available_reagents, i, total_cost) ==
    IF i > Len(recipe.reagents) THEN [raised |-> FALSE, ret |-> total_cost]
    ELSE LET reagent_name == recipe.reagents[i].name
             amount == recipe.reagents[i].amount
         IN IF reagent_name \notin DOMAIN available_reagents
            THEN calculate_total_cost_skipping_from(recipe, available_reagents, i + 1,
                                                    total_cost)
            ELSE calculate_total_cost_skipping_from(
                     recipe, available_reagents, i + 1,
                     total_cost + available_reagents[reagent_name].cost * amount)

calculate_total_cost_skipping(recipe, available_reagents) ==
    calculate_total_cost_skipping_from(recipe, available_reagents, 1, 0)

\* models.py Recipe.calculate_total_cost
calculate_total_cost(recipe, available_reagents) ==
    calculate_total_cost_from(recipe, available_reagents, 1, 0)

RECURSIVE LQ_validate_reagents_from(_, _, _, _)
LQ_validate_reagents_from(recipe, available_reagents, t, i) ==
    IF i > Len(recipe.reagents) THEN TRUE
    ELSE LET reagent_name == recipe.reagents[i].name
             amount == recipe.reagents[i].amount
         IN IF ~DictHas(available_reagents, reagent_name) THEN FALSE
            ELSE IF \/ DictGet(available_reagents, reagent_name).inventory < amount
                    \/ LQ_is_expired(DictGet(available_reagents, reagent_name), t)
                 THEN FALSE
                 ELSE LQ_validate_reagents_from(recipe, available_reagents, t, i + 1)

\* Laboratorio Quimico.py Recipe.validate_reagents, called at clock reading t
LQ_validate_reagents(recipe, available_reagents, t) ==
    LQ_validate_reagents_from(recipe, available_reagents, t, 1)

RECURSIVE LQ_calculate_total_cost_from(_, _, _, _)
LQ_calculate_total_cost_from(recipe, available_reagents, i, total_cost) ==
    IF i > Len(recipe.reagents) THEN [raised |-> FALSE, ret |-> total_cost]
    ELSE LET reagent_name == recipe.reagents[i].name
             amount == recipe.reagents[i].amount
         IN IF ~DictHas(available_reagents, reagent_name)
            THEN [raised |-> TRUE, ret |-> 0]
            ELSE LQ_calculate_total_cost_from(
                     recipe, available_reagents, i + 1,
                     total_cost + amount * DictGet(available_reagents, reagent_name).cost)

\* Laboratorio Quimico.py Recipe.calculate_total_cost: [raised, ret]
LQ_calculate_total_cost(recipe, available_reagents) ==
    LQ_calculate_total_cost_from(recipe, available_reagents, 1, 0)

----------------------------------------------------------------------------
(* models.py : Experiment *)

NoExperiment ==
    [recipe |-> NoRecipe, responsible_people |-> <<>>, results |-> EmptyDict,
     measurement_validations |-> EmptyDict, success |-> FALSE, cost |-> 0,
     notes |-> ""]

\* Experiment.__init__: [ok, obj]; ok = FALSE stands for the ValueError
Experiment(recipe, responsible_people) ==
    IF responsible_people = <<>>
    THEN [ok |-> FALSE, obj |-> NoExperiment]
    ELSE [ok |-> TRUE,
          obj |-> [recipe |-> recipe, responsible_people |-> responsible_people,
                   results |-> EmptyDict, measurement_validations |-> EmptyDict,
                   success |-> FALSE, cost |-> 0, notes |-> ""]]

\* Experiment.record_result: [raised, ret, obj].  raised = TRUE is the
\* ZeroDivisionError of a range whose midpoint is 0; the value is stored in
\* results before the division.  deviation = ((value - target) / target) * 100
\* with target = (min + max) / 2 is kept as the fraction num / den.
record_result(e, measurement, value) ==
    LET stored == [e EXCEPT !.results = Put(@, measurement, value)]
        expected == e.recipe.expected_results
    IN IF measurement \in DOMAIN expected
       THEN LET min_val == expected[measurement].lo
                max_val == expected[measurement].hi
                is_valid == min_val <= value /\ value <= max_val
            IN IF min_val + max_val = 0
               THEN [raised |-> TRUE, ret |-> FALSE, obj |-> stored]
               ELSE [raised |-> FALSE, ret |-> is_valid,
                     obj |-> [stored EXCEPT !.measurement_validations =
                                 Put(@, measurement,
                                     [value |-> value, is_valid |-> is_valid,
                                      deviation |-> [num |-> (2 * value - (min_val + max_val)) * 100,
                                                     den |-> min_val + max_val],
                                      expected_range |-> <<min_val, max_val>>])]]
       ELSE [raised |-> FALSE, ret |-> TRUE, obj |-> stored]

\* Experiment.validate_results
validate_results(e) ==
    IF DOMAIN e.results = {} \/ DOMAIN e.recipe.expected_results = {}
    THEN FALSE
    ELSE \A measurement \in DOMAIN e.results :
            measurement \in DOMAIN e.recipe.expected_results =>
                /\ e.recipe.expected_results[measurement].lo <= e.results[measurement]
                /\ e.results[measurement] <= e.recipe.expected_results[measurement].hi

----------------------------------------------------------------------------
(* Laboratorio Quimico.py : Experiment *)

\* Experiment.__init__
LQ_Experiment(recipe, responsible_people) ==
    [recipe |-> recipe, responsible_people |-> responsible_people,
     results |-> EmptyDict, measurement_validations |-> EmptyDict,
     success |-> FALSE, cost |-> 0, notes |-> ""]

\* Experiment.record_result: [ret, obj]
LQ_record_result(e, measurement, value) ==
    LET expected == e.recipe.expected_results
        ranged == /\ measurement \in DOMAIN expected
                  /\ expected[measurement].kind = "tuple"
        is_valid == IF ranged
                    THEN /\ expected[measurement].lo <= value
                         /\ value <= expected[measurement].hi
                    ELSE TRUE
        expected_range == IF ranged
                          THEN <<expected[measurement].lo, expected[measurement].hi>>
                          ELSE <<>>
    IN [ret |-> is_valid,
        obj |-> [e EXCEPT !.results = Put(@, measurement, value),
                          !.measurement_validations =
                              Put(@, measurement,
                                  [is_valid |-> is_valid,
                                   expected_range |-> expected_range])]]

LQ_validate_results_failopen(e) ==
    \A measurement \in DOMAIN e.recipe.expected_results :
        measurement \in DOMAIN e.results =>
            e.measurement_validations[measurement].is_valid

\* Experiment.validate_results
LQ_validate_results(e) ==
    \A measurement \in DOMAIN e.recipe.expected_results :
        /\ measurement \in DOMAIN e.results
        /\ IF measurement \in DOMAIN e.measurement_validations
           THEN e.measurement_validations[measurement].is_valid
           ELSE FALSE

----------------------------------------------------------------------------
(* managers.py : InventoryManager *)

\* InventoryManager.add_reagent
add_reagent(rs, reagent) == Put(rs, reagent.name, reagent)

\* InventoryManager.remove_reagent: [ok, reagents]
remove_reagent(rs, reagent_name) ==
    IF reagent_name \in DOMAIN rs
    THEN [ok |-> TRUE, reagents |-> Del(rs, reagent_name)]
    ELSE [ok |-> FALSE, reagents |-> rs]

\* InventoryManager.update_stock: [ok, reagents]; the bool returned by
\* Reagent.update_inventory is dropped
update_stock(rs, reagent_name, amount, reason) ==
    IF reagent_name \notin DOMAIN rs
    THEN [ok |-> FALSE, reagents |-> rs]
    ELSE [ok |-> TRUE,
          reagents |-> [rs EXCEPT ![reagent_name] =
                           update_inventory(rs[reagent_name], amount, reason).obj]]

\* InventoryManager.place_order: the order history after the call
place_order(oh, reagent_name, quantity, supplier_name) ==
    Append(oh, [order_id |-> Len(oh) + 1, reagent_name |-> reagent_name,
                quantity |-> quantity, supplier_name |-> supplier_name,
                status |-> "pending"])

receive_order_any_status(oh, rs, order_id) ==
    LET hits == {i \in DOMAIN oh : oh[i].order_id = order_id}
    IN IF hits = {}
       THEN [ok |-> FALSE, order_history |-> oh, reagents |-> rs]
       ELSE LET i == CHOOSE j \in hits : \A k \in hits : j <= k
            IN [ok |-> TRUE,
                order_history |-> [oh EXCEPT ![i].status = "received"],
                reagents |-> update_stock(rs, oh[i].reagent_name, oh[i].quantity,
                                          "Recepcion de pedido").reagents]

\* InventoryManager.receive_order: [ok, order_history, reagents]
receive_order(oh, rs, order_id) ==
    LET hits == {i \in DOMAIN oh : oh[i].order_id = order_id /\ oh[i].status = "pending"}
    IN IF hits = {}
       THEN [ok |-> FALSE, order_history |-> oh, reagents |-> rs]
       ELSE LET i == CHOOSE j \in hits : \A k \in hits : j <= k
            IN [ok |-> TRUE,
                order_history |-> [oh EXCEPT ![i].status = "received"],
                reagents |-> update_stock(rs, oh[i].reagent_name, oh[i].quantity,
                                          "Recepcion de pedido").reagents]

----------------------------------------------------------------------------
(* managers.py : ResultManager *)

\* ResultManager.add_result: [raised, results_history].  The first statement
\* calls experiment.get_detailed_results(), which models.Experiment does not
\* define (nor validations, deviations, is_successful): the call raises
\* AttributeError before anything is appended.
add_result(rh, e, notes) == [raised |-> TRUE, results_history |-> rh]

----------------------------------------------------------------------------
(* laboratory_system.py : LaboratorySystem.perform_experiment *)

availability_presence_only(needs, rs) ==
    \A i \in DOMAIN needs : needs[i].name \in DOMAIN rs

\* the availability loop: TRUE when no reagent makes it return None
availability(needs, rs) ==
    \A i \in DOMAIN needs :
        /\ needs[i].name \in DOMAIN rs
        /\ ~(rs[needs[i].name].inventory < needs[i].amount)

RECURSIVE record_all(_, _, _)
\* the measurement loop: [raised, obj]
record_all(e, measurements, todo) ==
    IF todo = {} THEN [raised |-> FALSE, obj |-> e]
    ELSE LET m == CHOOSE x \in todo : TRUE
             r == record_result(e, m, measurements[m])
         IN IF r.raised THEN [raised |-> TRUE, obj |-> r.obj]
            ELSE record_all(r.obj, measurements, todo \ {m})

RECURSIVE debit(_, _, _)
\* the stock loop: the reagents after update_stock(name, -amount, ...) for each
debit(needs, rs, i) ==
    IF i > Len(needs) THEN rs
    ELSE debit(needs,
               update_stock(rs, needs[i].name, 0 - needs[i].amount,
                            "Usado en experimento").reagents,
               i + 1)

\* LaboratorySystem.perform_experiment:
\* [outcome, cause, reagents, results_history]
perform_experiment(rcps, rs, rh, recipe_name, responsible_people, measurements, notes) ==
    LET unchanged(outcome, cause) ==
            [outcome |-> outcome, cause |-> cause, reagents |-> rs, results_history |-> rh]
    IN IF recipe_name \notin DOMAIN rcps THEN unchanged("fail", "no_recipe")
       ELSE LET recipe == rcps[recipe_name]
                e == Experiment(recipe, responsible_people)
                rec == record_all(e.obj, measurements, DOMAIN measurements)
                debited == debit(recipe.reagents, rs, 1)
                added == add_result(rh, rec.obj, notes)
            IN IF ~availability(recipe.reagents, rs) THEN unchanged("fail", "unavailable")
               ELSE IF ~e.ok THEN unchanged("raise", "no_people")
               ELSE IF rec.raised THEN unchanged("raise", "zero_division")
               ELSE [outcome |-> IF added.raised THEN "raise" ELSE "ok",
                     cause |-> IF added.raised THEN "attribute_error" ELSE "none",
                     reagents |-> debited,
                     results_history |-> added.results_history]

----------------------------------------------------------------------------
(* Laboratorio Quimico.py : LaboratorySystem *)

\* LaboratorySystem.add_reagent
LQ_add_reagent(rs, reagent) == DictSet(rs, reagent.name, reagent)

\* LaboratorySystem.place_order: [ok, reagents]; the order id is the clock
\* reading, ORD-%Y%m%d%H%M%S
LQ_place_order(rs, sups, reagent_name, quantity, supplier_name, t) ==
    IF ~DictHas(rs, reagent_name) \/ supplier_name \notin sups
    THEN [ok |-> FALSE, reagents |-> rs]
    ELSE LET r == DictGet(rs, reagent_name)
             order == [order_id |-> t, reagent_name |-> reagent_name,
                       quantity |-> quantity, supplier_name |-> supplier_name,
                       status |-> "pendiente"]
         IN [ok |-> TRUE,
             reagents |-> DictSet(rs, reagent_name,
                                  [r EXCEPT !.orders = Append(@, order)])]

\* LaboratorySystem.receive_order: [ok, reagents]; the first pending order
\* with that id, reagents in dict order, orders in list order
LQ_receive_order(rs, order_id) ==
    LET hit(i, j) == /\ rs[i].orders[j].order_id = order_id
                     /\ rs[i].orders[j].status = "pendiente"
        hits == UNION {{<<i, j>> : j \in {k \in DOMAIN rs[i].orders : hit(i, k)}} :
                       i \in DOMAIN rs}
    IN IF hits = {}
       THEN [ok |-> FALSE, reagents |-> rs]
       ELSE LET p == CHOOSE q \in hits :
                        \A o \in hits : q[1] < o[1] \/ (q[1] = o[1] /\ q[2] <= o[2])
                r == rs[p[1]]
                marked == [r EXCEPT !.orders[p[2]].status = "recibido"]
            IN [ok |-> TRUE,
                reagents |-> [rs EXCEPT ![p[1]] =
                                 LQ_update_inventory(marked, r.orders[p[2]].quantity,
                                                     "Recepcion de pedido")]]

RECURSIVE LQ_availability_from(_, _, _, _)
LQ_availability_from(needs, rs, t, i) ==
    IF i > Len(needs) THEN "ok"
    ELSE IF ~DictHas(rs, needs[i].name) THEN "not_found"
    ELSE IF DictGet(rs, needs[i].name).inventory < needs[i].amount THEN "insufficient"
    ELSE IF LQ_is_expired(DictGet(rs, needs[i].name), t) THEN "expired"
    ELSE LQ_availability_from(needs, rs, t, i + 1)

LQ_availability_presence_only(needs, rs, t) ==
    IF \A i \in DOMAIN needs : DictHas(rs, needs[i].name) THEN "ok" ELSE "not_found"

\* the availability loop: "ok", or the first error met
LQ_availability(needs, rs, t) == LQ_availability_from(needs, rs, t, 1)

RECURSIVE LQ_record_all(_, _, _)
\* the measurement loop
LQ_record_all(e, measurements, todo) ==
    IF todo = {} THEN e
    ELSE LET m == CHOOSE x \in todo : TRUE
         IN LQ_record_all(LQ_record_result(e, m, measurements[m]).obj,
                          measurements, todo \ {m})

RECURSIVE LQ_debit_from(_, _, _)
LQ_debit_from(needs, rs, i) ==
    IF i > Len(needs) THEN rs
    ELSE LQ_debit_from(needs,
                       DictSet(rs, needs[i].name,
                               LQ_update_inventory(DictGet(rs, needs[i].name),
                                                   0 - needs[i].amount,
                                                   "Usado en experimento")),
                       i + 1)

LQ_debit_first_only(needs, rs) ==
    DictSet(rs, needs[1].name,
            LQ_update_inventory(DictGet(rs, needs[1].name), 0 - needs[1].amount,
                                "Usado en experimento"))

\* the stock loop
LQ_debit(needs, rs) == LQ_debit_from(needs, rs, 1)

RECURSIVE LQ_cost_from(_, _, _)
LQ_cost_from(needs, rs, i) ==
    IF i > Len(needs) THEN 0
    ELSE DictGet(rs, needs[i].name).cost * needs[i].amount + LQ_cost_from(needs, rs, i + 1)

LQ_cost_of_stock(needs, rs) ==
    LET f[i \in 0..Len(needs)] ==
            IF i = 0 THEN 0
            ELSE f[i - 1] + DictGet(rs, needs[i].name).cost * DictGet(rs, needs[i].name).inventory
    IN f[Len(needs)]

\* experiment.cost
LQ_cost(needs, rs) == LQ_cost_from(needs, rs, 1)

LQ_record_experiment_replacing(exps, e) == <<e>>

\* self.experiments.append(experiment)
LQ_record_experiment(exps, e) == Append(exps, e)

\* LaboratorySystem.perform_experiment: [outcome, cause, reagents, experiments]
LQ_perform_experiment(rcps, rs, exps, recipe_name, responsible_people, measurements, notes, t) ==
    LET unchanged(cause) ==
            [outcome |-> "fail", cause |-> cause, reagents |-> rs, experiments |-> exps]
    IN IF recipe_name \notin DOMAIN rcps THEN unchanged("no_recipe")
       ELSE LET recipe == rcps[recipe_name]
                check == LQ_availability(recipe.reagents, rs, t)
                created == [LQ_Experiment(recipe, responsible_people) EXCEPT !.notes = notes]
                recorded == LQ_record_all(created, measurements, DOMAIN measurements)
                validated == [recorded EXCEPT !.success = LQ_validate_results(recorded)]
                debited == LQ_debit(recipe.reagents, rs)
                costed == [validated EXCEPT !.cost = LQ_cost(recipe.reagents, debited)]
            IN IF check # "ok" THEN unchanged(check)
               ELSE [outcome |-> "ok", cause |-> "none", reagents |-> debited,
                     experiments |-> LQ_record_experiment(exps, costed)]

----------------------------------------------------------------------------
(* Inputs of the calls *)

Impls == {"modular", "monolith"}
ReagentNames == {"A", "B"}

\* arguments of the Reagent constructor
ReagentArgs(name, cost, inventory, min_threshold, expiry_date) ==
    [name |-> name, cost |-> cost, inventory |-> inventory,
     min_threshold |-> min_threshold, expiry_date |-> expiry_date]

ReagentInputs ==
    { ReagentArgs("A", 2, 3, 1, NoDate),
      ReagentArgs("B", 3, 2, 1, <<1>>),
      ReagentArgs("B", 3, 0, 1, <<1>>) }

Amounts == {0 - 2, 1}
SupplierNames == {"S"}
OrderQuantities == {2}
PeopleInputs == {<<>>, <<"ana">>}
LQ_PeopleInputs == {<<"ana">>}
MeasurementInputs ==
    { "pH" :> 7,
      "pH" :> 5,
      ("pH" :> 7) @@ ("yield" :> 5) }

RecipeInputs ==
    { [name |-> "R1", reagents |-> <<Need("A", 2), Need("B", 1)>>,
       procedure |-> <<"mix">>,
       expected_results |-> ("pH" :> TupleRange(6, 8))],
      [name |-> "R2", reagents |-> <<Need("B", 1)>>,
       procedure |-> <<"mix">>,
       expected_results |-> ("pH" :> TupleRange(6, 8)) @@ ("yield" :> TupleRange(5, 5))],
      [name |-> "R3", reagents |-> <<>>,
       procedure |-> <<"mix">>,
       expected_results |-> ("pH" :> TupleRange(6, 8))] }

RecipeNames == {ri.name : ri \in RecipeInputs}

HistLen(r) == Len(r.purchase_history) + Len(r.usage_history)

----------------------------------------------------------------------------
(* The modular system: one action per call *)

Modular == impl = "modular"

AddReagent ==
    /\ Modular
    /\ \E a \in ReagentInputs :
          LET n == a.name
              r == Reagent(a.name, a.cost, a.inventory, a.min_threshold, a.expiry_date)
          IN IF r.ok
             THEN /\ reagents' = add_reagent(reagents, r.obj)
                  /\ last' = Call("add_reagent", "ok", "none", n, 0)
             ELSE /\ reagents' = reagents
                  /\ last' = Call("add_reagent", "raise", "value_error", n, 0)
    /\ UNCHANGED <<impl, data_file, threads, now, suppliers, order_history, recipes, results_history,
                   monolithVars, experiment>>

RemoveReagent ==
    /\ Modular
    /\ \E n \in ReagentNames :
          LET r == remove_reagent(reagents, n)
          IN /\ reagents' = r.reagents
             /\ last' = Call("remove_reagent", IF r.ok THEN "ok" ELSE "fail", "none", n, 0)
    /\ UNCHANGED <<impl, data_file, threads, now, suppliers, order_history, recipes, results_history,
                   monolithVars, experiment>>

\* reagent.update_inventory(amount, reason) on a reagent the manager holds
UpdateInventory(amounts) ==
    /\ Modular
    /\ \E n \in DOMAIN reagents, a \in amounts :
          /\ HistLen(reagents[n]) < MaxHist
          /\ LET r == update_inventory(reagents[n], a, "used")
             IN /\ reagents' = [reagents EXCEPT ![n] = r.obj]
                /\ last' = Call("update_inventory", IF r.ok THEN "ok" ELSE "fail",
                                IF r.ok THEN "none" ELSE "insufficient", n, a)
    /\ UNCHANGED <<impl, data_file, threads, now, suppliers, order_history, recipes, results_history,
                   monolithVars, experiment>>

UpdateStock ==
    /\ Modular
    /\ \E n \in ReagentNames, a \in Amounts :
          /\ n \in DOMAIN reagents => HistLen(reagents[n]) < MaxHist
          /\ LET r == update_stock(reagents, n, a, "used")
             IN /\ reagents' = r.reagents
                /\ last' = Call("update_stock", IF r.ok THEN "ok" ELSE "fail",
                                IF r.ok THEN "none" ELSE "not_found", n, a)
    /\ UNCHANGED <<impl, data_file, threads, now, suppliers, order_history, recipes, results_history,
                   monolithVars, experiment>>

RegisterSupplier ==
    /\ Modular
    /\ \E sn \in SupplierNames :
          /\ suppliers' = suppliers \cup {sn}
          /\ last' = Call("register_supplier", "ok", "none", sn, 0)
    /\ UNCHANGED <<impl, data_file, threads, now, reagents, order_history, recipes, results_history,
                   monolithVars, experiment>>

\* place_order(n, q, sn) while fewer than limit orders are on the books
PlaceOrder(limit) ==
    /\ Modular
    /\ Len(order_history) < limit
    /\ \E n \in ReagentNames, q \in OrderQuantities, sn \in SupplierNames :
          /\ order_history' = place_order(order_history, n, q, sn)
          /\ last' = OrderCall("ok", "none", n, q, sn)
    /\ UNCHANGED <<impl, data_file, threads, now, reagents, suppliers, recipes, results_history,
                   monolithVars, experiment>>

\* receive_order(id) for an id among ids
ReceiveOrder(ids) ==
    /\ Modular
    /\ \E id \in ids :
          /\ \A i \in DOMAIN order_history :
                order_history[i].reagent_name \in DOMAIN reagents =>
                    HistLen(reagents[order_history[i].reagent_name]) < MaxHist
          /\ LET r == receive_order(order_history, reagents, id)
             IN /\ order_history' = r.order_history
                /\ reagents' = r.reagents
                /\ last' = Call("receive_order", IF r.ok THEN "ok" ELSE "fail",
                                IF r.ok THEN "none" ELSE "not_found", "none", id)
    /\ UNCHANGED <<impl, data_file, threads, now, suppliers, recipes, results_history,
                   monolithVars, experiment>>

AddRecipe(inputs) ==
    /\ Modular
    /\ \E ri \in inputs :
          LET r == Recipe(ri.name, ri.reagents, ri.procedure, ri.expected_results)
          IN IF r.ok
             THEN /\ recipes' = Put(recipes, ri.name, r.obj)
                  /\ last' = Call("add_recipe", "ok", "none", ri.name, 0)
             ELSE /\ recipes' = recipes
                  /\ last' = Call("add_recipe", "raise", "value_error", ri.name, 0)
    /\ UNCHANGED <<impl, data_file, threads, now, reagents, suppliers, order_history, results_history,
                   monolithVars, experiment>>

PerformExperiment(limit) ==
    /\ Modular
    /\ Len(results_history) < limit
    /\ \E rn \in RecipeNames, people \in PeopleInputs, ms \in MeasurementInputs :
          /\ \A n \in DOMAIN reagents : HistLen(reagents[n]) < MaxHist
          /\ LET r == perform_experiment(recipes, reagents, results_history,
                                         rn, people, ms, "")
             IN /\ reagents' = r.reagents
                /\ results_history' = r.results_history
                /\ last' = Call("perform_experiment", r.outcome, r.cause, rn, 0)
    /\ UNCHANGED <<impl, data_file, threads, now, suppliers, order_history, recipes,
                   monolithVars, experiment>>

----------------------------------------------------------------------------
(* The monolithic system: one action per call *)

Monolith == impl = "monolith"

LQ_AddReagent ==
    /\ Monolith
    /\ \E a \in ReagentInputs :
          LET n == a.name
              r == LQ_Reagent(a.name, a.cost, a.inventory, a.min_threshold, a.expiry_date)
          IN IF r.ok
             THEN /\ lab_reagents' = LQ_add_reagent(lab_reagents, r.obj)
                  /\ last' = Call("add_reagent", "ok", "none", n, 0)
             ELSE /\ lab_reagents' = lab_reagents
                  /\ last' = Call("add_reagent", "raise", "value_error", n, 0)
    /\ UNCHANGED <<impl, data_file, threads, now, modularVars, lab_suppliers, lab_recipes, experiments,
                   experiment>>

\* reagent.update_inventory(amount, reason) on a reagent of the system
LQ_UpdateInventory(amounts) ==
    /\ Monolith
    /\ \E n \in DictKeys(lab_reagents), a \in amounts :
          /\ HistLen(DictGet(lab_reagents, n)) < MaxHist
          /\ lab_reagents' = DictSet(lab_reagents, n,
                                     LQ_update_inventory(DictGet(lab_reagents, n), a, "used"))
          /\ last' = Call("update_inventory", "ok", "none", n, a)
    /\ UNCHANGED <<impl, data_file, threads, now, modularVars, lab_suppliers, lab_recipes, experiments,
                   experiment>>

LQ_AddSupplier ==
    /\ Monolith
    /\ \E sn \in SupplierNames :
          /\ lab_suppliers' = lab_suppliers \cup {sn}
          /\ last' = Call("add_supplier", "ok", "none", sn, 0)
    /\ UNCHANGED <<impl, data_file, threads, now, modularVars, lab_reagents, lab_recipes, experiments,
                   experiment>>

LQ_OrderCount == SumOver(DOMAIN lab_reagents, [i \in DOMAIN lab_reagents |-> Len(lab_reagents[i].orders)])

\* place_order(n, q, sn) while fewer than limit orders are on the books
LQ_PlaceOrder(limit) ==
    /\ Monolith
    /\ LQ_OrderCount < limit
    /\ \E n \in ReagentNames, q \in OrderQuantities, sn \in SupplierNames :
          LET r == LQ_place_order(lab_reagents, lab_suppliers, n, q, sn, now)
          IN /\ lab_reagents' = r.reagents
             /\ last' = OrderCall(IF r.ok THEN "ok" ELSE "fail",
                                  IF r.ok THEN "none" ELSE "not_found", n, q, sn)
    /\ UNCHANGED <<impl, data_file, threads, now, modularVars, lab_suppliers, lab_recipes, experiments,
                   experiment>>

\* receive_order(id) for an id among ids
LQ_ReceiveOrder(ids) ==
    /\ Monolith
    /\ \E id \in ids :
          /\ \A i \in DOMAIN lab_reagents : HistLen(lab_reagents[i]) < MaxHist
          /\ LET r == LQ_receive_order(lab_reagents, id)
             IN /\ lab_reagents' = r.reagents
                /\ last' = Call("receive_order", IF r.ok THEN "ok" ELSE "fail",
                                IF r.ok THEN "none" ELSE "not_found", "none", id)
    /\ UNCHANGED <<impl, data_file, threads, now, modularVars, lab_suppliers, lab_recipes, experiments,
                   experiment>>

LQ_AddRecipe(inputs) ==
    /\ Monolith
    /\ \E ri \in inputs :
          LET r == LQ_Recipe(ri.name, ri.reagents, ri.expected_results, ri.procedure)
          IN IF r.ok
             THEN /\ lab_recipes' = Put(lab_recipes, ri.name, r.obj)
                  /\ last' = Call("add_recipe", "ok", "none", ri.name, 0)
             ELSE /\ lab_recipes' = lab_recipes
                  /\ last' = Call("add_recipe", "raise", "value_error", ri.name, 0)
    /\ UNCHANGED <<impl, data_file, threads, now, modularVars, lab_reagents, lab_suppliers, experiments,
                   experiment>>

LQ_PerformExperiment(limit) ==
    /\ Monolith
    /\ Len(experiments) < limit
    /\ \E rn \in RecipeNames, people \in LQ_PeopleInputs, ms \in MeasurementInputs :
          /\ \A i \in DOMAIN lab_reagents : HistLen(lab_reagents[i]) < MaxHist
          /\ LET r == LQ_perform_experiment(lab_recipes, lab_reagents, experiments,
                                            rn, people, ms, "", now)
             IN /\ lab_reagents' = r.reagents
                /\ experiments' = r.experiments
                /\ last' = Call("perform_experiment", r.outcome, r.cause, rn, 0)
    /\ UNCHANGED <<impl, data_file, threads, now, modularVars, lab_suppliers, lab_recipes, experiment>>

----------------------------------------------------------------------------
(* The clock *)

\* the clock advances, up to the tick limit
Tick(limit) ==
    /\ now < limit
    /\ now' = now + 1
    /\ last' = Call("tick", "ok", "none", "none", 0)
    /\ UNCHANGED <<impl, data_file, threads, modularVars, monolithVars, experiment>>

----------------------------------------------------------------------------
(* The laboratory system: either implementation, from construction *)

Init ==
    /\ impl \in Impls
    /\ now = 0
    /\ reagents = EmptyDict
    /\ suppliers = {}
    /\ order_history = <<>>
    /\ recipes = EmptyDict
    /\ results_history = <<>>
    /\ lab_reagents = <<>>
    /\ lab_suppliers = {}
    /\ lab_recipes = EmptyDict
    /\ experiments = <<>>
    /\ experiment = NoExperiment
    /\ data_file = NoFile
    /\ threads = NoThreads
    /\ last = NoCall

Next ==
    \/ AddReagent
    \/ RemoveReagent
    \/ UpdateInventory(Amounts)
    \/ UpdateStock
    \/ RegisterSupplier
    \/ PlaceOrder(MaxOrders)
    \/ ReceiveOrder(1..MaxOrders)
    \/ AddRecipe(RecipeInputs)
    \/ PerformExperiment(MaxExperiments)
    \/ LQ_AddReagent
    \/ LQ_UpdateInventory(Amounts)
    \/ LQ_AddSupplier
    \/ LQ_PlaceOrder(MaxOrders)
    \/ LQ_ReceiveOrder(0..MaxNow)
    \/ LQ_AddRecipe(RecipeInputs)
    \/ LQ_PerformExperiment(MaxExperiments)
    \/ Tick(MaxNow)

Spec == Init /\ [][Next]_vars

----------------------------------------------------------------------------
(* One reagent object and calls of its update_inventory *)

ScenarioInventories == {100, 40}
ScenarioAmounts == {0 - 130, 0 - 90, 0 - 30, 0, 30}

InitReagent ==
    /\ impl \in Impls
    /\ now = 0
    /\ \E q \in ScenarioInventories :
          /\ reagents = IF impl = "modular"
                        THEN "Acid" :> Reagent("Acid", 2, q, 20, NoDate).obj
                        ELSE EmptyDict
          /\ lab_reagents = IF impl = "monolith"
                            THEN <<LQ_Reagent("Acid", 2, q, 20, NoDate).obj>>
                            ELSE <<>>
    /\ suppliers = {}
    /\ order_history = <<>>
    /\ recipes = EmptyDict
    /\ results_history = <<>>
    /\ lab_suppliers = {}
    /\ lab_recipes = EmptyDict
    /\ experiments = <<>>
    /\ experiment = NoExperiment
    /\ data_file = NoFile
    /\ threads = NoThreads
    /\ last = NoCall

NextReagent ==
    \/ UpdateInventory(ScenarioAmounts)
    \/ LQ_UpdateInventory(ScenarioAmounts)

SpecReagent == InitReagent /\ [][NextReagent]_vars

----------------------------------------------------------------------------
(* One Experiment object and calls of its record_result / validate_results *)

ExperimentRecipeInputs ==
    { [name |-> "R1", reagents |-> <<Need("A", 2)>>, procedure |-> <<"mix">>,
       expected_results |-> ("pH" :> TupleRange(6, 8))],
      [name |-> "R2", reagents |-> <<Need("A", 2)>>, procedure |-> <<"mix">>,
       expected_results |-> ("pH" :> TupleRange(6, 8)) @@ ("yield" :> TupleRange(5, 5))],
      [name |-> "R0", reagents |-> <<Need("A", 2)>>, procedure |-> <<"mix">>,
       expected_results |-> ("pH" :> TupleRange(6, 8)) @@ ("temp" :> TupleRange(0 - 5, 5))] }

ExperimentMeasurements == {"pH", "yield", "temp"}
ExperimentValues == {0, 5, 7}

InitExperiment ==
    /\ impl \in Impls
    /\ now = 0
    /\ reagents = EmptyDict
    /\ suppliers = {}
    /\ order_history = <<>>
    /\ recipes = EmptyDict
    /\ results_history = <<>>
    /\ lab_reagents = <<>>
    /\ lab_suppliers = {}
    /\ lab_recipes = EmptyDict
    /\ experiments = <<>>
    /\ \E ri \in ExperimentRecipeInputs :
          experiment =
              IF impl = "modular"
              THEN Experiment(Recipe(ri.name, ri.reagents, ri.procedure,
                                     ri.expected_results).obj, <<"ana">>).obj
              ELSE LQ_Experiment(LQ_Recipe(ri.name, ri.reagents, ri.expected_results,
                                           ri.procedure).obj, <<"ana">>)
    /\ data_file = NoFile
    /\ threads = NoThreads
    /\ last = NoCall

RecordResult ==
    /\ Modular
    /\ \E m \in ExperimentMeasurements, v \in ExperimentValues :
          LET r == record_result(experiment, m, v)
          IN /\ experiment' = r.obj
             /\ last' = Call("record_result",
                             IF r.raised THEN "raise" ELSE IF r.ret THEN "ok" ELSE "fail",
                             IF r.raised THEN "zero_division" ELSE "none", m, v)
    /\ UNCHANGED <<impl, data_file, threads, now, modularVars, monolithVars>>

ValidateResults ==
    /\ Modular
    /\ last' = Call("validate_results",
                    IF validate_results(experiment) THEN "ok" ELSE "fail", "none", "none", 0)
    /\ UNCHANGED <<impl, data_file, threads, now, modularVars, monolithVars, experiment>>

LQ_RecordResult ==
    /\ Monolith
    /\ \E m \in ExperimentMeasurements, v \in ExperimentValues :
          LET r == LQ_record_result(experiment, m, v)
          IN /\ experiment' = r.obj
             /\ last' = Call("record_result", IF r.ret THEN "ok" ELSE "fail", "none", m, v)
    /\ UNCHANGED <<impl, data_file, threads, now, modularVars, monolithVars>>

LQ_ValidateResults ==
    /\ Monolith
    /\ last' = Call("validate_results",
                    IF LQ_validate_results(experiment) THEN "ok" ELSE "fail",
                    "none", "none", 0)
    /\ UNCHANGED <<impl, data_file, threads, now, modularVars, monolithVars, experiment>>

NextExperiment ==
    \/ RecordResult
    \/ ValidateResults
    \/ LQ_RecordResult
    \/ LQ_ValidateResults

SpecExperiment == InitExperiment /\ [][NextExperiment]_vars

----------------------------------------------------------------------------
(* What the properties read: the running implementation's state *)

Present(n) == IF Modular THEN n \in DOMAIN reagents ELSE DictHas(lab_reagents, n)

PresentNames == IF Modular THEN DOMAIN reagents ELSE DictKeys(lab_reagents)

Stock(n) == IF Modular THEN reagents[n] ELSE DictGet(lab_reagents, n)

\* the same reagent in the state the step leads to
StockNext(n) == IF Modular THEN reagents'[n] ELSE DictGet(lab_reagents', n)

KnownRecipes == IF Modular THEN recipes ELSE lab_recipes

History == IF Modular THEN results_history ELSE experiments

Needed(recipe) == {recipe.reagents[i].name : i \in DOMAIN recipe.reagents}

NeededAmount(recipe, n) ==
    recipe.reagents[CHOOSE i \in DOMAIN recipe.reagents : recipe.reagents[i].name = n].amount

\* some required reagent is absent or has less stock than required
Short(recipe) ==
    \E i \in DOMAIN recipe.reagents :
        \/ ~Present(recipe.reagents[i].name)
        \/ Stock(recipe.reagents[i].name).inventory < recipe.reagents[i].amount

\* the current date is on or after the expiry date
ExpiredOn(r, t) == r.expiry_date # NoDate /\ DateOf(t) >= r.expiry_date[1]

AnyExpired(recipe) ==
    \E i \in DOMAIN recipe.reagents :
        /\ Present(recipe.reagents[i].name)
        /\ ExpiredOn(Stock(recipe.reagents[i].name), now)

\* the call of this step is perform_experiment on a recipe the system holds
PerformStep == last'.op = "perform_experiment" /\ last'.name \in DOMAIN KnownRecipes

\* the call of this step is update_inventory on a reagent object
UpdateStep == last'.op = "update_inventory" /\ Present(last'.name)

----------------------------------------------------------------------------
(* C1: perform_experiment is atomic on failure.  A call whose recipe needs a
   reagent that is absent or short of stock fails, and leaves every reagent
   (inventory, purchase_history, usage_history) and the result history as
   they were. *)
C1_AtomicOnShortage ==
    [][ (PerformStep /\ Short(KnownRecipes[last'.name])) =>
            /\ last'.outcome = "fail"
            /\ reagents' = reagents
            /\ lab_reagents' = lab_reagents
            /\ History' = History ]_vars

\* a failed call whose recipe had one reagent short and another one in stock
C1_Witness ==
    /\ last.op = "perform_experiment"
    /\ last.outcome = "fail"
    /\ last.name \in DOMAIN KnownRecipes
    /\ Short(KnownRecipes[last.name])
    /\ \E i \in DOMAIN KnownRecipes[last.name].reagents :
          LET need == KnownRecipes[last.name].reagents[i]
          IN Present(need.name) /\ Stock(need.name).inventory >= need.amount

(* C2: in every reachable state every reagent's inventory is >= 0. *)
C2_NonNegativeInventory ==
    \A n \in PresentNames : Stock(n).inventory >= 0

(* C3: update_inventory(amount, reason) with inventory + amount < 0 reports
   failure and leaves inventory, purchase_history and usage_history as they
   were. *)
C3_OverdrawRejected ==
    [][ (UpdateStep /\ Stock(last'.name).inventory + last'.amount < 0) =>
            /\ last'.outcome = "fail"
            /\ StockNext(last'.name) = Stock(last'.name) ]_vars

(* C4: perform_experiment never consumes an expired reagent.  A call whose
   recipe needs a reagent that is expired (current date on or after the expiry
   date) fails before any mutation: no inventory is debited, no result is
   recorded. *)
C4_ExpiredNeverConsumed ==
    [][ (PerformStep /\ AnyExpired(KnownRecipes[last'.name])) =>
            /\ last'.outcome # "ok"
            /\ reagents' = reagents
            /\ lab_reagents' = lab_reagents
            /\ History' = History ]_vars

(* C5: validate_results() returns true exactly when every measurement the
   recipe declares in expected_results has been recorded with a value inside
   its [min, max] range; a declared measurement that is not recorded makes it
   false. *)
C5_ValidateIffAllDeclaredInRange ==
    last.op = "validate_results" =>
        ( last.outcome = "ok" <=>
            \A m \in DOMAIN experiment.recipe.expected_results :
                /\ m \in DOMAIN experiment.results
                /\ experiment.recipe.expected_results[m].lo <= experiment.results[m]
                /\ experiment.results[m] <= experiment.recipe.expected_results[m].hi )

(* C6: every experiment in the history has success true exactly when every
   key of its recipe's expected_results is in its results and the validation
   stored for each of them has is_valid true. *)
C6_SuccessFlag ==
    \A i \in DOMAIN experiments :
        LET e == experiments[i]
        IN e.success <=>
              \A m \in DOMAIN e.recipe.expected_results :
                  /\ m \in DOMAIN e.results
                  /\ m \in DOMAIN e.measurement_validations
                  /\ e.measurement_validations[m].is_valid

\* a stored experiment that is unsuccessful only because a declared
\* measurement was never recorded, and one could not tell from the others
C6_Witness ==
    \E i \in DOMAIN experiments :
        LET e == experiments[i]
        IN /\ ~e.success
           /\ DOMAIN e.results # {}
           /\ \A m \in DOMAIN e.results :
                 m \in DOMAIN e.recipe.expected_results /\ e.measurement_validations[m].is_valid
           /\ \E m \in DOMAIN e.recipe.expected_results : m \notin DOMAIN e.results

(* C7: after a successful perform_experiment the cost stored with the
   recorded experiment is the sum over the recipe's reagents of required
   quantity x unit cost, and the call changed no reagent's unit cost. *)
C7_CostOfExperiment ==
    [][ (PerformStep /\ last'.outcome = "ok") =>
            LET recipe == KnownRecipes[last'.name]
                entry == History'[Len(History')]
                stored == IF Modular THEN entry.costo ELSE entry.cost
            IN /\ Len(History') = Len(History) + 1
               /\ stored = SumOver(Needed(recipe),
                                   [n \in Needed(recipe) |->
                                       NeededAmount(recipe, n) * Stock(n).cost])
               /\ PresentNames' = PresentNames
               /\ \A n \in PresentNames : Stock(n)'.cost = Stock(n).cost ]_vars

\* a recorded experiment of the two-reagent recipe, costing 2 x 2 + 1 x 3
C7_Witness ==
    /\ last.op = "perform_experiment"
    /\ last.outcome = "ok"
    /\ last.name = "R1"
    /\ History # <<>>
    /\ History[Len(History)].cost = 7

(* C8: a perform_experiment that gets to debit the stock reduces the
   inventory of each reagent of the recipe by exactly the required quantity
   and appends exactly one usage_history record to it, and leaves the
   inventory and histories of every other reagent as they were. *)
C8_DebitExactlyTheRecipe ==
    [][ (PerformStep /\ (last'.outcome = "ok" \/ last'.cause = "attribute_error")) =>
            LET recipe == KnownRecipes[last'.name]
            IN /\ PresentNames' = PresentNames
               /\ \A n \in PresentNames :
                     IF n \in Needed(recipe)
                     THEN /\ Stock(n)'.inventory = Stock(n).inventory - NeededAmount(recipe, n)
                          /\ Len(Stock(n)'.usage_history) = Len(Stock(n).usage_history) + 1
                          /\ SubSeq(Stock(n)'.usage_history, 1, Len(Stock(n).usage_history))
                                = Stock(n).usage_history
                          /\ Stock(n)'.usage_history[Len(Stock(n)'.usage_history)].amount
                                = 0 - NeededAmount(recipe, n)
                          /\ Stock(n)'.purchase_history = Stock(n).purchase_history
                     ELSE Stock(n)' = Stock(n) ]_vars

\* a successful experiment on the one-reagent recipe while another reagent is held
C8_Witness ==
    /\ last.op = "perform_experiment"
    /\ last.outcome = "ok"
    /\ last.name = "R2"
    /\ \E n \in PresentNames : n \notin Needed(KnownRecipes["R2"])
    /\ \E n \in PresentNames :
          /\ n \in Needed(KnownRecipes["R2"])
          /\ Stock(n).usage_history # <<>>

(* C9: every successful update_inventory appends exactly one transaction
   record, to purchase_history alone when the amount is positive and to
   usage_history alone when it is negative; and a reagent's inventory changes
   in no other way: whenever the inventory or a history of a reagent object
   changes, the change is one such record together with its amount. *)
OneRecord(r, r2) ==
    \/ /\ r2.inventory > r.inventory
       /\ r2.purchase_history =
             Append(r.purchase_history, r2.purchase_history[Len(r2.purchase_history)])
       /\ r2.purchase_history[Len(r2.purchase_history)].amount = r2.inventory - r.inventory
       /\ r2.usage_history = r.usage_history
    \/ /\ r2.inventory < r.inventory
       /\ r2.usage_history =
             Append(r.usage_history, r2.usage_history[Len(r2.usage_history)])
       /\ r2.usage_history[Len(r2.usage_history)].amount = r2.inventory - r.inventory
       /\ r2.purchase_history = r.purchase_history

Untouched(r, r2) ==
    /\ r2.inventory = r.inventory
    /\ r2.purchase_history = r.purchase_history
    /\ r2.usage_history = r.usage_history

C9_OneRecordPerUpdate ==
    [][ /\ \A n \in PresentNames :
              (Present(n)' /\ ~(last'.op = "add_reagent" /\ last'.name = n)) =>
                  Untouched(Stock(n), Stock(n)') \/ OneRecord(Stock(n), Stock(n)')
        /\ (UpdateStep /\ last'.outcome = "ok" /\ last'.amount # 0) =>
              /\ StockNext(last'.name).inventory = Stock(last'.name).inventory + last'.amount
              /\ OneRecord(Stock(last'.name), StockNext(last'.name)) ]_vars

\* a successful debit by a direct update_inventory call, recorded in usage_history
C9_Witness ==
    /\ last.op = "update_inventory"
    /\ last.outcome = "ok"
    /\ last.amount < 0
    /\ Present(last.name)
    /\ Stock(last.name).usage_history # <<>>
    /\ Stock(last.name).usage_history[Len(Stock(last.name).usage_history)].amount = last.amount
    /\ Stock(last.name).purchase_history = <<>>

(* C10, as the specification states it: with inventory 100 and min_threshold
   20, update_inventory(-90, "used") fails and the inventory stays 100; a
   following update_inventory(-30, "used") succeeds, the inventory becomes 70
   and one usage_history entry with amount -30 is appended. *)
C10_ScenarioAsStated ==
    [][ /\ (UpdateStep /\ last'.amount = 0 - 90 /\ Stock(last'.name).inventory = 100) =>
              /\ last'.outcome = "fail"
              /\ StockNext(last'.name).inventory = 100
        /\ (UpdateStep /\ last'.amount = 0 - 30 /\ Stock(last'.name).inventory = 100) =>
              /\ last'.outcome = "ok"
              /\ StockNext(last'.name).inventory = 70
              /\ Len(StockNext(last'.name).usage_history)
                    = Len(Stock(last'.name).usage_history) + 1
              /\ StockNext(last'.name).usage_history[Len(StockNext(last'.name).usage_history)].amount
                    = 0 - 30 ]_vars

(* C10, amended: with inventory 100 and min_threshold 20,
   update_inventory(-90, "used") succeeds, the inventory becomes 10 and one
   usage_history entry with amount -90 is appended; update_inventory(-30,
   "used") on inventory 100 succeeds, the inventory becomes 70 and one
   usage_history entry with amount -30 is appended. *)
C10_ScenarioAmended ==
    [][ \A a \in {0 - 90, 0 - 30} :
          (UpdateStep /\ last'.amount = a /\ Stock(last'.name).inventory = 100
              /\ Stock(last'.name).min_threshold = 20) =>
              /\ last'.outcome = "ok"
              /\ StockNext(last'.name).inventory = 100 + a
              /\ Len(StockNext(last'.name).usage_history)
                    = Len(Stock(last'.name).usage_history) + 1
              /\ StockNext(last'.name).usage_history[Len(StockNext(last'.name).usage_history)].amount
                    = a
              /\ StockNext(last'.name).usage_history[Len(StockNext(last'.name).usage_history)].new_level
                    = 100 + a
              /\ StockNext(last'.name).purchase_history = Stock(last'.name).purchase_history ]_vars

\* update_inventory(-90) has just succeeded on the reagent that held 100
C10_Witness ==
    /\ last.op = "update_inventory"
    /\ last.amount = 0 - 90
    /\ last.outcome = "ok"
    /\ Present("Acid")
    /\ Stock("Acid").inventory = 10
    /\ Stock("Acid").min_threshold = 20
    /\ Len(Stock("Acid").usage_history) = 1
    /\ Stock("Acid").purchase_history = <<>>

(* C11: update_stock(name, amount, reason) reports failure and changes
   nothing when no reagent has that name; otherwise it reports exactly what
   Reagent.update_inventory reported: failure whenever the update was
   rejected because it would make the inventory negative. *)
C11_UpdateStockPropagates ==
    [][ last'.op = "update_stock" =>
            IF last'.name \notin DOMAIN reagents
            THEN last'.outcome = "fail" /\ reagents' = reagents
            ELSE last'.outcome = "ok" <=>
                    update_inventory(reagents[last'.name], last'.amount, "used").ok ]_vars

----------------------------------------------------------------------------
(* The order book: reagents, suppliers and orders of either implementation *)

MaxOrderBook == 2     \* orders placed in the order book runs

NextOrders ==
    \/ AddReagent
    \/ RemoveReagent
    \/ RegisterSupplier
    \/ PlaceOrder(MaxOrderBook)
    \/ ReceiveOrder(1..MaxOrderBook)
    \/ LQ_AddReagent
    \/ LQ_AddSupplier
    \/ LQ_PlaceOrder(MaxOrderBook)
    \/ LQ_ReceiveOrder(0..MaxNow)
    \/ Tick(MaxNow)

SpecOrders == Init /\ [][NextOrders]_vars

----------------------------------------------------------------------------
(* What the properties read of the orders: the order records of the running
   implementation, each under the place it is stored at *)

OrderKeys ==
    IF Modular
    THEN {<<"order_history", i>> : i \in DOMAIN order_history}
    ELSE UNION {{<<lab_reagents[i].name, j>> : j \in DOMAIN lab_reagents[i].orders} :
                i \in DOMAIN lab_reagents}

OrderAt(k) ==
    IF Modular THEN order_history[k[2]] ELSE DictGet(lab_reagents, k[1]).orders[k[2]]

IsPending(o) == o.status \in {"pending", "pendiente"}

IsReceived(o) == o.status \in {"received", "recibido"}

\* the call of this step is receive_order; its order_id is last'.amount
ReceiveStep == last'.op = "receive_order"

\* the orders this step turns from pending to received
Turned == {k \in OrderKeys \cap OrderKeys' : IsPending(OrderAt(k)) /\ IsReceived(OrderAt(k)')}

(* C12: receive_order(order_id) fails and changes no order and no inventory
   when no pending order carries order_id (the id is unknown, or its order is
   already received).  Hence each placed order credits stock at most once: a
   call turns at most one order to received, credits only the reagent of that
   order and only by its quantity, and changes nothing when it turns none;
   and no step of the system takes an order back from received to pending. *)
C12_ReceiveOnlyPendingOnce ==
    [][ /\ ReceiveStep =>
              /\ (~\E k \in OrderKeys : /\ OrderAt(k).order_id = last'.amount
                                        /\ IsPending(OrderAt(k))) =>
                    /\ last'.outcome = "fail"
                    /\ order_history' = order_history
                    /\ reagents' = reagents
                    /\ lab_reagents' = lab_reagents
              /\ Cardinality(Turned) <= 1
              /\ Turned = {} =>
                    /\ order_history' = order_history
                    /\ reagents' = reagents
                    /\ lab_reagents' = lab_reagents
              /\ PresentNames' = PresentNames
              /\ \A n \in PresentNames :
                    Stock(n)'.inventory # Stock(n).inventory =>
                        \E k \in Turned :
                            /\ OrderAt(k).reagent_name = n
                            /\ Stock(n)'.inventory = Stock(n).inventory + OrderAt(k).quantity
        /\ \A k \in OrderKeys \cap OrderKeys' :
              IsReceived(OrderAt(k)) => IsReceived(OrderAt(k)') ]_vars

\* a second receive_order of an order already received has just failed, the
\* reagent of the order holding the one credit of the first call
C12_Witness ==
    /\ last.op = "receive_order"
    /\ last.outcome = "fail"
    /\ \E k \in OrderKeys :
          /\ OrderAt(k).order_id = last.amount
          /\ IsReceived(OrderAt(k))
          /\ Present(OrderAt(k).reagent_name)
          /\ Len(Stock(OrderAt(k).reagent_name).purchase_history) = 1
          /\ Stock(OrderAt(k).reagent_name).purchase_history[1].amount = OrderAt(k).quantity

(* C13: whenever receive_order(order_id) reports success, one order with that
   id has turned from pending to received and the inventory of the reagent it
   names has grown by exactly the ordered quantity, with one purchase_history
   record appended for it; also when the reagent was removed between
   place_order and receive_order. *)
C13_ReceiveCreditsStock ==
    [][ (ReceiveStep /\ last'.outcome = "ok") =>
            \E k \in Turned :
                LET n == OrderAt(k).reagent_name
                    q == OrderAt(k).quantity
                IN /\ OrderAt(k).order_id = last'.amount
                   /\ Present(n)
                   /\ n \in PresentNames'
                   /\ StockNext(n).inventory = Stock(n).inventory + q
                   /\ StockNext(n).purchase_history # <<>>
                   /\ StockNext(n).purchase_history =
                         Append(Stock(n).purchase_history,
                                StockNext(n).purchase_history[Len(StockNext(n).purchase_history)])
                   /\ StockNext(n).purchase_history[Len(StockNext(n).purchase_history)].amount = q
                   /\ StockNext(n).usage_history = Stock(n).usage_history ]_vars

\* the call of this step is place_order(last'.name, last'.amount, last'.supplier_name)
PlaceStep == last'.op = "place_order"

Registered == IF Modular THEN suppliers ELSE lab_suppliers

(* C14: place_order(reagent, qty, supplier) fails and creates no order record
   when the reagent name or the supplier name is not registered; otherwise it
   succeeds and creates exactly one new order, with status pending, for that
   reagent, quantity and supplier. *)
C14_PlaceOrderChecksNames ==
    [][ PlaceStep =>
            IF ~Present(last'.name) \/ last'.supplier_name \notin Registered
            THEN /\ last'.outcome = "fail"
                 /\ OrderKeys' = OrderKeys
                 /\ order_history' = order_history
                 /\ lab_reagents' = lab_reagents
            ELSE /\ last'.outcome = "ok"
                 /\ OrderKeys \subseteq OrderKeys'
                 /\ Cardinality(OrderKeys' \ OrderKeys) = 1
                 /\ \A k \in OrderKeys : OrderAt(k)' = OrderAt(k)
                 /\ \A k \in OrderKeys' \ OrderKeys :
                       /\ IsPending(OrderAt(k)')
                       /\ OrderAt(k)'.reagent_name = last'.name
                       /\ OrderAt(k)'.quantity = last'.amount
                       /\ OrderAt(k)'.supplier_name = last'.supplier_name ]_vars

(* C15: order ids are unique: in every reachable state, also after several
   place_order calls at the same clock instant, no two order records carry
   the same order_id. *)
C15_UniqueOrderIds ==
    \A k1 \in OrderKeys : \A k2 \in OrderKeys :
        OrderAt(k1).order_id = OrderAt(k2).order_id => k1 = k2

----------------------------------------------------------------------------
(* Recipes against the inventory: validate_reagents and calculate_total_cost
   of the recipes held, called with the reagents held *)

MaxClock == 2         \* last clock tick of the recipe runs

ValidateReagents ==
    /\ Modular
    /\ \E rn \in DOMAIN recipes :
          last' = Call("validate_reagents",
                       IF validate_reagents(recipes[rn], reagents, now) THEN "ok" ELSE "fail",
                       "none", rn, 0)
    /\ UNCHANGED <<impl, data_file, threads, now, modularVars, monolithVars, experiment>>

CalculateTotalCost ==
    /\ Modular
    /\ \E rn \in DOMAIN recipes :
          LET r == calculate_total_cost(recipes[rn], reagents)
          IN last' = Call("calculate_total_cost", IF r.raised THEN "raise" ELSE "ok",
                          IF r.raised THEN "value_error" ELSE "none", rn, r.ret)
    /\ UNCHANGED <<impl, data_file, threads, now, modularVars, monolithVars, experiment>>

LQ_ValidateReagents ==
    /\ Monolith
    /\ \E rn \in DOMAIN lab_recipes :
          last' = Call("validate_reagents",
                       IF LQ_validate_reagents(lab_recipes[rn], lab_reagents, now)
                       THEN "ok" ELSE "fail",
                       "none", rn, 0)
    /\ UNCHANGED <<impl, data_file, threads, now, modularVars, monolithVars, experiment>>

LQ_CalculateTotalCost ==
    /\ Monolith
    /\ \E rn \in DOMAIN lab_recipes :
          LET r == LQ_calculate_total_cost(lab_recipes[rn], lab_reagents)
          IN last' = Call("calculate_total_cost", IF r.raised THEN "raise" ELSE "ok",
                          IF r.raised THEN "value_error" ELSE "none", rn, r.ret)
    /\ UNCHANGED <<impl, data_file, threads, now, modularVars, monolithVars, experiment>>

NextRecipe ==
    \/ AddReagent
    \/ RemoveReagent
    \/ UpdateInventory(Amounts)
    \/ AddRecipe(RecipeInputs)
    \/ ValidateReagents
    \/ CalculateTotalCost
    \/ LQ_AddReagent
    \/ LQ_UpdateInventory(Amounts)
    \/ LQ_AddRecipe(RecipeInputs)
    \/ LQ_ValidateReagents
    \/ LQ_CalculateTotalCost
    \/ Tick(MaxClock)

SpecRecipe == Init /\ [][NextRecipe]_vars

\* what the reagent's own is_expired() answers at the current clock reading
ExpiredNow(r) == IF Modular THEN is_expired(r, now) ELSE LQ_is_expired(r, now)

\* every reagent of the recipe is held, in sufficient quantity and not expired
AllUsable(recipe) ==
    \A i \in DOMAIN recipe.reagents :
        /\ Present(recipe.reagents[i].name)
        /\ Stock(recipe.reagents[i].name).inventory >= recipe.reagents[i].amount
        /\ ~ExpiredNow(Stock(recipe.reagents[i].name))

(* C16: Recipe.validate_reagents(available) returns true exactly when every
   (reagent_name, required_qty) of the recipe names a reagent that is in
   available, has inventory >= required_qty and is not expired (its
   is_expired() is false); the call changes no state. *)
C16_ValidateReagents ==
    [][ last'.op = "validate_reagents" =>
            /\ last'.outcome = "ok" <=> AllUsable(KnownRecipes[last'.name])
            /\ UNCHANGED <<now, modularVars, monolithVars>> ]_vars

\* validate_reagents has just answered false for a recipe whose reagents are
\* all held in sufficient quantity, one of them expired
C16_Witness ==
    /\ last.op = "validate_reagents"
    /\ last.outcome = "fail"
    /\ \A i \in DOMAIN KnownRecipes[last.name].reagents :
          /\ Present(KnownRecipes[last.name].reagents[i].name)
          /\ Stock(KnownRecipes[last.name].reagents[i].name).inventory
                >= KnownRecipes[last.name].reagents[i].amount
    /\ \E i \in DOMAIN KnownRecipes[last.name].reagents :
          ExpiredNow(Stock(KnownRecipes[last.name].reagents[i].name))
    /\ \E i \in DOMAIN KnownRecipes[last.name].reagents :
          ~ExpiredNow(Stock(KnownRecipes[last.name].reagents[i].name))

(* C17: Recipe.calculate_total_cost(available) returns the sum over the
   recipe's reagents of required_qty x reagent.cost when every one of them is
   in available, and fails (raises) when any of them is missing, never
   returning a sum that leaves a reagent out. *)
C17_TotalCostOrFailure ==
    [][ last'.op = "calculate_total_cost" =>
            LET recipe == KnownRecipes[last'.name]
            IN IF \A n \in Needed(recipe) : Present(n)
               THEN /\ last'.outcome = "ok"
                    /\ last'.amount =
                          SumOver(Needed(recipe),
                                  [n \in Needed(recipe) |->
                                      NeededAmount(recipe, n) * Stock(n).cost])
               ELSE /\ last'.outcome = "raise"
                    /\ last'.cause = "value_error" ]_vars

\* calculate_total_cost has just failed for a recipe of which one reagent is
\* held and another is missing
C17_Witness ==
    /\ last.op = "calculate_total_cost"
    /\ last.outcome = "raise"
    /\ \E n \in Needed(KnownRecipes[last.name]) : Present(n)
    /\ \E n \in Needed(KnownRecipes[last.name]) : ~Present(n)

(* C18: Experiment.record_result(measurement, value) always stores value in
   results; when measurement is a key of the recipe's expected_results with
   range [min, max] it stores a validation with is_valid = (min <= value <=
   max) and returns that is_valid; when measurement is not a key of
   expected_results it returns true. *)
C18_RecordResult ==
    [][ last'.op = "record_result" =>
            LET m == last'.name
                v == last'.amount
                expected == experiment.recipe.expected_results
            IN /\ m \in DOMAIN experiment'.results
               /\ experiment'.results[m] = v
               /\ IF m \in DOMAIN expected
                  THEN LET in_range == expected[m].lo <= v /\ v <= expected[m].hi
                       IN /\ m \in DOMAIN experiment'.measurement_validations
                          /\ experiment'.measurement_validations[m].is_valid = in_range
                          /\ last'.outcome = IF in_range THEN "ok" ELSE "fail"
                  ELSE last'.outcome = "ok" ]_vars

----------------------------------------------------------------------------
(* Snapshots: to_dict / from_dict and save_data / load_data.  The document *)
(* is the JSON text as json.load reads it back: a tuple is written as an   *)
(* array and comes back as a list; numbers, strings, booleans and the      *)
(* "%Y-%m-%d" dates come back as they were written.                        *)

\* json.dump then json.load of one expected range
json_range(v) == IF v.kind = "tuple" THEN [v EXCEPT !.kind = "list"] ELSE v

json_ranges(expected_results) ==
    [m \in DOMAIN expected_results |-> json_range(expected_results[m])]

\* models.py Reagent.to_dict
Reagent_to_dict(r) ==
    [name |-> r.name, cost |-> r.cost, inventory |-> r.inventory,
     min_threshold |-> r.min_threshold, expiry_date |-> r.expiry_date,
     purchase_history |-> r.purchase_history, usage_history |-> r.usage_history]

\* models.py Reagent.from_dict: [ok, obj]; the constructor validates again
Reagent_from_dict(data) ==
    LET reagent == Reagent(data.name, data.cost, data.inventory, data.min_threshold,
                           data.expiry_date)
    IN IF reagent.ok
       THEN [ok |-> TRUE,
             obj |-> [reagent.obj EXCEPT !.purchase_history = data.purchase_history,
                                         !.usage_history = data.usage_history]]
       ELSE reagent

\* models.py Recipe.to_dict
Recipe_to_dict(recipe) ==
    [name |-> recipe.name, reagents |-> recipe.reagents, procedure |-> recipe.procedure,
     expected_results |-> recipe.expected_results]

\* models.py Recipe.from_dict: [ok, obj]
Recipe_from_dict(data) ==
    Recipe(data.name, data.reagents, data.procedure, data.expected_results)

\* InventoryManager.to_dict
InventoryManager_to_dict(rs, sups, oh) ==
    [reagents |-> [n \in DOMAIN rs |-> Reagent_to_dict(rs[n])],
     suppliers |-> sups, order_history |-> oh]

\* InventoryManager.from_dict: [ok, reagents, suppliers, order_history]; every
\* reagent is rebuilt and added under its name, one ValueError ends the load
InventoryManager_from_dict(data) ==
    IF \E n \in DOMAIN data.reagents : ~Reagent_from_dict(data.reagents[n]).ok
    THEN [ok |-> FALSE, reagents |-> EmptyDict, suppliers |-> {}, order_history |-> <<>>]
    ELSE [ok |-> TRUE,
          reagents |-> [n \in DOMAIN data.reagents |->
                            Reagent_from_dict(data.reagents[n]).obj],
          suppliers |-> data.suppliers,
          order_history |-> data.order_history]

\* LaboratorySystem.save_data: the document written
save_data(rs, sups, oh, rh, rcps) ==
    [exists |-> TRUE,
     inventory |-> InventoryManager_to_dict(rs, sups, oh),
     results |-> [results_history |-> rh],
     recipes |-> [n \in DOMAIN rcps |->
                     [Recipe_to_dict(rcps[n]) EXCEPT
                          !.expected_results = json_ranges(@)]]]

\* LaboratorySystem.load_data: the managers are replaced one after the other,
\* an exception leaves the later ones as they were
load_data(doc, rs, sups, oh, rh, rcps) ==
    LET inv == InventoryManager_from_dict(doc.inventory)
        recipe_ok == \A n \in DOMAIN doc.recipes : Recipe_from_dict(doc.recipes[n]).ok
    IN IF ~inv.ok
       THEN [raised |-> TRUE, reagents |-> rs, suppliers |-> sups, order_history |-> oh,
             results_history |-> rh, recipes |-> rcps]
       ELSE [raised |-> ~recipe_ok,
             reagents |-> inv.reagents, suppliers |-> inv.suppliers,
             order_history |-> inv.order_history,
             results_history |-> doc.results.results_history,
             recipes |-> IF recipe_ok
                         THEN [n \in DOMAIN doc.recipes |->
                                  Recipe_from_dict(doc.recipes[n]).obj]
                         ELSE rcps]

\* Laboratorio Quimico.py Reagent.to_dict
LQ_Reagent_to_dict(r) ==
    [name |-> r.name, cost |-> r.cost, inventory |-> r.inventory,
     min_threshold |-> r.min_threshold, expiry_date |-> r.expiry_date,
     purchase_history |-> r.purchase_history, usage_history |-> r.usage_history,
     orders |-> r.orders]

\* Laboratorio Quimico.py Reagent.from_dict: [ok, obj]; the constructor
\* validates again
LQ_Reagent_from_dict(data) ==
    LET reagent == LQ_Reagent(data.name, data.cost, data.inventory, data.min_threshold,
                              data.expiry_date)
    IN IF reagent.ok
       THEN [ok |-> TRUE,
             obj |-> [reagent.obj EXCEPT !.purchase_history = data.purchase_history,
                                         !.usage_history = data.usage_history,
                                         !.orders = data.orders]]
       ELSE reagent

\* Laboratorio Quimico.py Recipe.to_dict: a tuple range is written as a list
LQ_Recipe_to_dict(recipe) ==
    [name |-> recipe.name, reagents |-> recipe.reagents, procedure |-> recipe.procedure,
     expected_results |->
         [k \in DOMAIN recipe.expected_results |->
              IF recipe.expected_results[k].kind = "tuple"
              THEN [recipe.expected_results[k] EXCEPT !.kind = "list"]
              ELSE recipe.expected_results[k]]]

\* Laboratorio Quimico.py Recipe.from_dict: [ok, obj]; a list range becomes a
\* tuple again
LQ_Recipe_from_dict(data) ==
    LET expected_results ==
            [k \in DOMAIN data.expected_results |->
                 IF data.expected_results[k].kind = "list"
                 THEN [data.expected_results[k] EXCEPT !.kind = "tuple"]
                 ELSE data.expected_results[k]]
    IN LQ_Recipe(data.name, data.reagents, expected_results, data.procedure)

\* Laboratorio Quimico.py Experiment.to_dict
LQ_Experiment_to_dict(e) ==
    [recipe |-> LQ_Recipe_to_dict(e.recipe),
     responsible_people |-> e.responsible_people,
     results |-> e.results,
     measurement_validations |-> e.measurement_validations,
     success |-> e.success, cost |-> e.cost, notes |-> e.notes]

\* Laboratorio Quimico.py Experiment.from_dict: [ok, obj]
LQ_Experiment_from_dict(data) ==
    LET recipe == LQ_Recipe_from_dict(data.recipe)
    IN IF ~recipe.ok THEN [ok |-> FALSE, obj |-> NoExperiment]
       ELSE [ok |-> TRUE,
             obj |-> [LQ_Experiment(recipe.obj, data.responsible_people) EXCEPT
                          !.results = data.results,
                          !.measurement_validations = data.measurement_validations,
                          !.success = data.success,
                          !.cost = data.cost,
                          !.notes = data.notes]]

\* Laboratorio Quimico.py save_data: the document written
LQ_save_data(rs, rcps, exps, sups) ==
    [exists |-> TRUE,
     reagents |-> [i \in DOMAIN rs |-> LQ_Reagent_to_dict(rs[i])],
     recipes |-> [n \in DOMAIN rcps |-> LQ_Recipe_to_dict(rcps[n])],
     experiments |-> [i \in DOMAIN exps |-> LQ_Experiment_to_dict(exps[i])],
     suppliers |-> sups]

\* Laboratorio Quimico.py load_data: reagents, recipes, experiments and
\* suppliers are assigned in this order; an exception leaves the later ones
\* as they were (the experiments list is emptied before it is refilled)
LQ_load_data(doc, rs, rcps, exps, sups) ==
    LET reagents_ok == \A i \in DOMAIN doc.reagents : LQ_Reagent_from_dict(doc.reagents[i]).ok
        recipes_ok == \A n \in DOMAIN doc.recipes : LQ_Recipe_from_dict(doc.recipes[n]).ok
        bad == {i \in DOMAIN doc.experiments : ~LQ_Experiment_from_dict(doc.experiments[i]).ok}
        loaded == IF bad = {} THEN Len(doc.experiments)
                  ELSE (CHOOSE i \in bad : \A j \in bad : i <= j) - 1
    IN IF ~reagents_ok
       THEN [raised |-> TRUE, reagents |-> rs, recipes |-> rcps, experiments |-> exps,
             suppliers |-> sups]
       ELSE LET rs2 == [i \in DOMAIN doc.reagents |-> LQ_Reagent_from_dict(doc.reagents[i]).obj]
            IN IF ~recipes_ok
               THEN [raised |-> TRUE, reagents |-> rs2, recipes |-> rcps,
                     experiments |-> exps, suppliers |-> sups]
               ELSE [raised |-> bad # {},
                     reagents |-> rs2,
                     recipes |-> [n \in DOMAIN doc.recipes |->
                                     LQ_Recipe_from_dict(doc.recipes[n]).obj],
                     experiments |-> [i \in 1..loaded |->
                                         LQ_Experiment_from_dict(doc.experiments[i]).obj],
                     suppliers |-> IF bad = {} THEN doc.suppliers ELSE sups]

----------------------------------------------------------------------------
(* Saving and reloading the system *)

\* LaboratorySystem.save_data()
SaveData ==
    /\ Modular
    /\ data_file' = save_data(reagents, suppliers, order_history, results_history, recipes)
    /\ last' = Call("save_data", "ok", "none", "none", 0)
    /\ UNCHANGED <<impl, threads, now, modularVars, monolithVars, experiment>>

\* LaboratorySystem.load_data(); open() raises when the file is missing
LoadData ==
    /\ Modular
    /\ IF data_file = NoFile
       THEN /\ last' = Call("load_data", "raise", "not_found", "none", 0)
            /\ UNCHANGED modularVars
       ELSE LET r == load_data(data_file, reagents, suppliers, order_history,
                               results_history, recipes)
            IN /\ reagents' = r.reagents
               /\ suppliers' = r.suppliers
               /\ order_history' = r.order_history
               /\ results_history' = r.results_history
               /\ recipes' = r.recipes
               /\ last' = Call("load_data", IF r.raised THEN "raise" ELSE "ok",
                               IF r.raised THEN "invalid" ELSE "none", "none", 0)
    /\ UNCHANGED <<impl, data_file, threads, now, monolithVars, experiment>>

\* Laboratorio Quimico.py save_data(filename)
LQ_SaveData ==
    /\ Monolith
    /\ data_file' = LQ_save_data(lab_reagents, lab_recipes, experiments, lab_suppliers)
    /\ last' = Call("save_data", "ok", "none", "none", 0)
    /\ UNCHANGED <<impl, threads, now, modularVars, monolithVars, experiment>>

\* Laboratorio Quimico.py load_data(filename); a missing file is reported
LQ_LoadData ==
    /\ Monolith
    /\ IF data_file = NoFile
       THEN /\ last' = Call("load_data", "fail", "not_found", "none", 0)
            /\ UNCHANGED monolithVars
       ELSE LET r == LQ_load_data(data_file, lab_reagents, lab_recipes, experiments,
                                  lab_suppliers)
            IN /\ lab_reagents' = r.reagents
               /\ lab_recipes' = r.recipes
               /\ experiments' = r.experiments
               /\ lab_suppliers' = r.suppliers
               /\ last' = Call("load_data", IF r.raised THEN "raise" ELSE "ok",
                               IF r.raised THEN "invalid" ELSE "none", "none", 0)
    /\ UNCHANGED <<impl, data_file, threads, now, modularVars, experiment>>

\* a stocked laboratory with one recipe, nothing saved yet
InitSnapshot ==
    /\ impl \in Impls
    /\ now = 0
    /\ reagents = IF impl = "modular"
                  THEN ("A" :> Reagent("A", 2, 3, 1, NoDate).obj)
                       @@ ("B" :> Reagent("B", 3, 2, 1, <<1>>).obj)
                  ELSE EmptyDict
    /\ lab_reagents = IF impl = "monolith"
                      THEN <<LQ_Reagent("A", 2, 3, 1, NoDate).obj,
                             LQ_Reagent("B", 3, 2, 1, <<1>>).obj>>
                      ELSE <<>>
    /\ suppliers = {}
    /\ order_history = <<>>
    /\ recipes = EmptyDict
    /\ results_history = <<>>
    /\ lab_suppliers = {}
    /\ lab_recipes = EmptyDict
    /\ experiments = <<>>
    /\ experiment = NoExperiment
    /\ data_file = NoFile
    /\ threads = NoThreads
    /\ last = NoCall

NextSnapshot ==
    \/ UpdateInventory(Amounts)
    \/ AddRecipe(RecipeInputs)
    \/ SaveData
    \/ LoadData
    \/ LQ_UpdateInventory(Amounts)
    \/ LQ_AddRecipe(RecipeInputs)
    \/ LQ_PerformExperiment(MaxExperiments)
    \/ LQ_SaveData
    \/ LQ_LoadData

SpecSnapshot == InitSnapshot /\ [][NextSnapshot]_vars

----------------------------------------------------------------------------
(* What a snapshot is compared on *)

\* name, inventory and cost of every reagent of a collection
ReagentFacts(rs) ==
    {[name |-> r.name, inventory |-> r.inventory, cost |-> r.cost] : r \in Range(rs)}

\* the expected ranges of every recipe of a collection, as (min, max) values
RecipeFacts(rcps) ==
    {[name |-> rcps[n].name,
      expected_results |->
          [m \in DOMAIN rcps[n].expected_results |->
               <<rcps[n].expected_results[m].lo, rcps[n].expected_results[m].hi>>]] :
       n \in DOMAIN rcps}

\* the success value of every experiment, in order
SuccessFacts(exps) == [i \in DOMAIN exps |-> exps[i].success]

LiveReagents == ReagentFacts(IF Modular THEN reagents ELSE lab_reagents)

LiveRecipes == RecipeFacts(KnownRecipes)

LiveSuccess == SuccessFacts(History)

SavedReagents(doc) ==
    ReagentFacts(IF Modular THEN doc.inventory.reagents ELSE doc.reagents)

SavedRecipes(doc) == RecipeFacts(doc.recipes)

SavedSuccess(doc) ==
    SuccessFacts(IF Modular THEN doc.results.results_history ELSE doc.experiments)

(* C19: save_data writes the name, inventory and cost of every reagent, the
   expected_results of every recipe and the success of every experiment, and
   load_data of a written snapshot succeeds and leaves the system with
   exactly the written values, also when a reagent's stock is 0. *)
C19_SnapshotRoundTrip ==
    [][ /\ last'.op = "save_data" =>
              /\ SavedReagents(data_file') = LiveReagents
              /\ SavedRecipes(data_file') = LiveRecipes
              /\ SavedSuccess(data_file') = LiveSuccess
        /\ (last'.op = "load_data" /\ data_file # NoFile) =>
              /\ last'.outcome = "ok"
              /\ LiveReagents' = SavedReagents(data_file)
              /\ LiveRecipes' = SavedRecipes(data_file)
              /\ LiveSuccess' = SavedSuccess(data_file) ]_vars

----------------------------------------------------------------------------
(* Success rates.  A rate is the exact quotient num / den of the float the *)
(* code returns; 0.0 is 0 / 1.                                              *)

Rate(num, den) == [num |-> num, den |-> den]

\* recipe_name left at its default
None == "None"

\* sum(1 for r in results if r["exito"])
RECURSIVE successful_from(_, _)
successful_from(results, i) ==
    IF i > Len(results) THEN 0
    ELSE (IF results[i].exito THEN 1 ELSE 0) + successful_from(results, i + 1)

\* ResultManager.get_results_by_recipe
get_results_by_recipe(rh, recipe_name) ==
    SelectSeq(rh, LAMBDA r : r.receta = recipe_name)

calculate_success_rate_unfiltered(rh, recipe_name) ==
    IF rh = <<>> THEN [raised |-> FALSE, ret |-> Rate(0, 1)]
    ELSE [raised |-> FALSE, ret |-> Rate(successful_from(rh, 1) * 100, Len(rh))]

\* ResultManager.calculate_success_rate: [raised, ret]
calculate_success_rate(rh, recipe_name) ==
    LET results == IF recipe_name \notin {None, ""}
                   THEN get_results_by_recipe(rh, recipe_name)
                   ELSE rh
    IN IF results = <<>> THEN [raised |-> FALSE, ret |-> Rate(0, 1)]
       ELSE [raised |-> FALSE,
             ret |-> Rate(successful_from(results, 1) * 100, Len(results))]

\* sum(1 for e in self.experiments if e.success)
RECURSIVE LQ_successful_from(_, _)
LQ_successful_from(exps, i) ==
    IF i > Len(exps) THEN 0
    ELSE (IF exps[i].success THEN 1 ELSE 0) + LQ_successful_from(exps, i + 1)

\* Laboratorio Quimico.py get_experiment_statistics: the "success_rate" entry
LQ_get_experiment_statistics(exps) ==
    IF exps = <<>> THEN [raised |-> FALSE, ret |-> Rate(0, 1)]
    ELSE [raised |-> FALSE,
          ret |-> Rate(LQ_successful_from(exps, 1) * 100, Len(exps))]

----------------------------------------------------------------------------
(* Success rates over recorded histories *)

MaxEntries == 3       \* entries of a recorded history

RateRecipes == {"R1", "R2"}

\* an entry of results_history as add_result writes it (the fields read here)
ResultEntries == [receta : RateRecipes, exito : BOOLEAN]

\* an experiment of the monolithic list with its success flag set
LQ_ExperimentEntries ==
    {[LQ_Experiment(LQ_Recipe(ri.name, ri.reagents, ri.expected_results,
                              ri.procedure).obj, <<"ana">>)
         EXCEPT !.success = ok] :
       ri \in {x \in RecipeInputs : x.name \in RateRecipes}, ok \in BOOLEAN}

SeqsUpTo(S, n) == UNION {[1..k -> S] : k \in 0..n}

\* a laboratory whose history was loaded from a snapshot
InitRate ==
    /\ impl \in Impls
    /\ now = 0
    /\ reagents = EmptyDict
    /\ lab_reagents = <<>>
    /\ suppliers = {}
    /\ order_history = <<>>
    /\ recipes = EmptyDict
    /\ results_history \in IF impl = "modular"
                           THEN SeqsUpTo(ResultEntries, MaxEntries) ELSE {<<>>}
    /\ lab_suppliers = {}
    /\ lab_recipes = EmptyDict
    /\ experiments \in IF impl = "monolith"
                       THEN SeqsUpTo(LQ_ExperimentEntries, MaxEntries) ELSE {<<>>}
    /\ experiment = NoExperiment
    /\ data_file = NoFile
    /\ threads = NoThreads
    /\ last = NoCall

\* ResultManager.calculate_success_rate(recipe_name)
CalculateSuccessRate ==
    /\ Modular
    /\ \E recipe_name \in RateRecipes \cup {"R3", None} :
          LET r == calculate_success_rate(results_history, recipe_name)
          IN last' = Call("calculate_success_rate", IF r.raised THEN "raise" ELSE "ok",
                          "none", recipe_name, r.ret)
    /\ UNCHANGED <<impl, data_file, threads, now, modularVars, monolithVars, experiment>>

\* Laboratorio Quimico.py get_experiment_statistics()
LQ_GetExperimentStatistics ==
    /\ Monolith
    /\ LET r == LQ_get_experiment_statistics(experiments)
       IN last' = Call("calculate_success_rate", IF r.raised THEN "raise" ELSE "ok",
                       "none", None, r.ret)
    /\ UNCHANGED <<impl, data_file, threads, now, modularVars, monolithVars, experiment>>

NextRate ==
    \/ CalculateSuccessRate
    \/ LQ_GetExperimentStatistics

SpecRate == InitRate /\ [][NextRate]_vars

\* the history entries a rate for recipe_name counts, and the successful ones
Counted(recipe_name) ==
    {i \in DOMAIN History :
        \/ recipe_name = None
        \/ (IF Modular THEN History[i].receta ELSE History[i].recipe.name) = recipe_name}

Succeeded(recipe_name) ==
    {i \in Counted(recipe_name) :
        IF Modular THEN History[i].exito ELSE History[i].success}

(* C20: calculate_success_rate(recipe_name) returns without error
   100 x (entries with success true) / (entries), over the entries of the
   given recipe when a recipe name is given and over all entries otherwise,
   and returns 0 when there is no such entry. *)
C20_SuccessRate ==
    [][ last'.op = "calculate_success_rate" =>
            /\ last'.outcome = "ok"
            /\ IF Counted(last'.name) = {}
               THEN last'.amount.num = 0
               ELSE last'.amount.num * Cardinality(Counted(last'.name))
                        = 100 * Cardinality(Succeeded(last'.name)) * last'.amount.den ]_vars

\* a rate of 50 has just been returned for a recipe with one success in two
\* entries, the history holding a failed entry of another recipe as well
C20_Witness ==
    /\ last.op = "calculate_success_rate"
    /\ last.name # None
    /\ Cardinality(Counted(last.name)) = 2
    /\ Cardinality(Succeeded(last.name)) = 1
    /\ Cardinality(Counted(None)) = 3
    /\ Cardinality(Succeeded(None)) = 1
    /\ last.amount.num = 50 * last.amount.den

----------------------------------------------------------------------------
(* Inventory alerts *)

AlertDays == 30       \* check_alerts reports an expiry within this many days

\* the value of days_until_expiry(): None, or a number of days
NoDays == [is_none |-> TRUE, days |-> 0]

Days(d) == [is_none |-> FALSE, days |-> d]

\* Laboratorio Quimico.py Reagent.days_until_expiry
LQ_days_until_expiry(r, t) ==
    IF r.expiry_date = NoDate THEN NoDays
    ELSE LET today == DateOf(t)
             expiry == r.expiry_date[1]
         IN IF today >= expiry THEN Days(0) ELSE Days(expiry - today)

\* a list of the members of a set, one entry each
RECURSIVE ListOf(_)
ListOf(S) ==
    IF S = {} THEN <<>>
    ELSE LET x == CHOOSE y \in S : TRUE IN <<x>> \o ListOf(S \ {x})

\* InventoryManager.get_low_stock_reagents
get_low_stock_reagents(rs) == ListOf({n \in DOMAIN rs : is_low_stock(rs[n])})

\* InventoryManager.check_alerts: [raised, ret].  The second loop calls
\* reagent.days_until_expiry(), which models.py Reagent does not define: the
\* first reagent visited raises AttributeError and the alerts collected so
\* far are lost
check_alerts(rs, t) ==
    LET low == get_low_stock_reagents(rs)
        alerts == [i \in DOMAIN low |-> [type |-> "low_stock", reagent_name |-> low[i]]]
    IN IF DOMAIN rs # {}
       THEN [raised |-> TRUE, ret |-> <<>>]
       ELSE [raised |-> FALSE, ret |-> alerts]

\* InventoryManager.check_alerts()
CheckAlerts ==
    /\ Modular
    /\ LET r == check_alerts(reagents, now)
       IN last' = Call("check_alerts", IF r.raised THEN "raise" ELSE "ok",
                       IF r.raised THEN "attribute_error" ELSE "none", "none", r.ret)
    /\ UNCHANGED <<impl, data_file, threads, now, modularVars, monolithVars, experiment>>

\* reagent.days_until_expiry() on a reagent of the monolithic system
LQ_DaysUntilExpiry ==
    /\ Monolith
    /\ \E n \in DictKeys(lab_reagents) :
          last' = Call("days_until_expiry", "ok", "none", n,
                       LQ_days_until_expiry(DictGet(lab_reagents, n), now))
    /\ UNCHANGED <<impl, data_file, threads, now, modularVars, monolithVars, experiment>>

NextAlerts ==
    \/ AddReagent
    \/ RemoveReagent
    \/ UpdateInventory(Amounts)
    \/ CheckAlerts
    \/ LQ_AddReagent
    \/ LQ_UpdateInventory(Amounts)
    \/ LQ_DaysUntilExpiry
    \/ Tick(MaxClock)

SpecAlerts == Init /\ [][NextAlerts]_vars

\* the whole days left to the expiry date of r, 0 once it is reached
DaysLeft(r) ==
    IF DateOf(now) >= r.expiry_date[1] THEN 0 ELSE r.expiry_date[1] - DateOf(now)

\* the alerts of one type about reagent n in a returned list
AlertsAbout(alerts, type, n) ==
    {i \in DOMAIN alerts : alerts[i].type = type /\ alerts[i].reagent_name = n}

(* C21: check_alerts() completes without error and returns exactly one
   low_stock alert for every reagent with inventory <= min_threshold, exactly
   one expiry alert for every reagent with an expiry date at most 30 days
   away (0 days once expired), and nothing else; days_until_expiry() is None
   without an expiry date, 0 once expired, else the days to the expiry. *)
C21_CheckAlerts ==
    [][ /\ last'.op = "check_alerts" =>
              /\ last'.outcome = "ok"
              /\ \A i \in DOMAIN last'.amount : last'.amount[i].reagent_name \in PresentNames
              /\ \A n \in PresentNames :
                    /\ Cardinality(AlertsAbout(last'.amount, "low_stock", n))
                         = IF Stock(n).inventory <= Stock(n).min_threshold THEN 1 ELSE 0
                    /\ Cardinality(AlertsAbout(last'.amount, "expiry", n))
                         = IF /\ Stock(n).expiry_date # NoDate
                              /\ DaysLeft(Stock(n)) <= AlertDays
                           THEN 1 ELSE 0
        /\ last'.op = "days_until_expiry" =>
              last'.amount = IF Stock(last'.name).expiry_date = NoDate THEN NoDays
                             ELSE Days(DaysLeft(Stock(last'.name))) ]_vars

----------------------------------------------------------------------------
(* Expiry of a reagent *)

\* reagent.is_expired() on a reagent the manager holds
IsExpired ==
    /\ Modular
    /\ \E n \in DOMAIN reagents :
          last' = Call("is_expired", "ok", "none", n, is_expired(reagents[n], now))
    /\ UNCHANGED <<impl, data_file, threads, now, modularVars, monolithVars, experiment>>

\* reagent.is_expired() on a reagent of the monolithic system
LQ_IsExpired ==
    /\ Monolith
    /\ \E n \in DictKeys(lab_reagents) :
          last' = Call("is_expired", "ok", "none", n,
                       LQ_is_expired(DictGet(lab_reagents, n), now))
    /\ UNCHANGED <<impl, data_file, threads, now, modularVars, monolithVars, experiment>>

NextExpiry ==
    \/ AddReagent
    \/ IsExpired
    \/ LQ_AddReagent
    \/ LQ_IsExpired
    \/ Tick(MaxClock)

SpecExpiry == Init /\ [][NextExpiry]_vars

(* C22: is_expired() is false for a reagent without an expiry date and
   otherwise true exactly when the current date is the expiry date or a
   later one. *)
C22_IsExpired ==
    [][ last'.op = "is_expired" =>
            (last'.amount <=> ExpiredOn(Stock(last'.name), now)) ]_vars

----------------------------------------------------------------------------
(* Construction of a reagent from raw arguments.  A Python value is        *)
(* [type, text, padded, value]: a string is its text without the           *)
(* surrounding blanks plus whether it had any ("" with blanks is a blank   *)
(* string), a number is its value, a numeric string is the number float()  *)
(* reads from it.                                                          *)

Py(type, text, padded, value) ==
    [type |-> type, text |-> text, padded |-> padded, value |-> value]

StrVal(text, padded) == Py("str", text, padded, 0)

NumVal(v) == Py("num", "", FALSE, v)

NumStrVal(v) == Py("numstr", "", FALSE, v)

NoneVal == Py("none", "", FALSE, 0)

\* isinstance(value, str)
IsStr(v) == v.type \in {"str", "numstr"}

\* value.strip()
strip(v) == IF v.type = "str" THEN [v EXCEPT !.padded = FALSE] ELSE v

\* Validator.validate_string: [ok, ret]; ok = FALSE stands for the ValueError
Validator_validate_string(value) ==
    IF ~IsStr(value) \/ strip(value) = StrVal("", FALSE)
    THEN [ok |-> FALSE, ret |-> NoneVal]
    ELSE [ok |-> TRUE, ret |-> strip(value)]

\* Validator.validate_positive_number: [ok, ret]; float() reads a number or a
\* numeric string, anything else and any num <= 0 ends in the ValueError
Validator_validate_positive_number(value) ==
    IF value.type \notin {"num", "numstr"} THEN [ok |-> FALSE, ret |-> NoneVal]
    ELSE IF value.value <= 0 THEN [ok |-> FALSE, ret |-> NoneVal]
    ELSE [ok |-> TRUE, ret |-> NumVal(value.value)]

NoRawReagent ==
    [name |-> NoneVal, description |-> NoneVal, cost |-> NoneVal, category |-> NoneVal,
     inventory |-> NoneVal, unit |-> NoneVal, min_threshold |-> NoneVal]

\* models.py Reagent.__init__ on raw arguments: [ok, obj]; the validators'
\* return values are dropped and the arguments are stored as passed
Reagent_init(name, description, cost, category, inventory, unit, min_threshold) ==
    IF /\ Validator_validate_string(name).ok
       /\ Validator_validate_string(description).ok
       /\ Validator_validate_positive_number(cost).ok
       /\ Validator_validate_string(category).ok
       /\ Validator_validate_positive_number(inventory).ok
       /\ Validator_validate_string(unit).ok
       /\ Validator_validate_positive_number(min_threshold).ok
    THEN [ok |-> TRUE,
          obj |-> [name |-> name, description |-> description, cost |-> cost,
                   category |-> category, inventory |-> inventory, unit |-> unit,
                   min_threshold |-> min_threshold]]
    ELSE [ok |-> FALSE, obj |-> NoRawReagent]

\* Laboratorio Quimico.py Reagent.__init__ on raw arguments: [ok, obj]; each
\* field is assigned what its validator returns
LQ_Reagent_init(name, description, cost, category, inventory, unit, min_threshold) ==
    IF /\ Validator_validate_string(name).ok
       /\ Validator_validate_string(description).ok
       /\ Validator_validate_positive_number(cost).ok
       /\ Validator_validate_string(category).ok
       /\ Validator_validate_positive_number(inventory).ok
       /\ Validator_validate_string(unit).ok
       /\ Validator_validate_positive_number(min_threshold).ok
    THEN [ok |-> TRUE,
          obj |-> [name |-> Validator_validate_string(name).ret,
                   description |-> Validator_validate_string(description).ret,
                   cost |-> Validator_validate_positive_number(cost).ret,
                   category |-> Validator_validate_string(category).ret,
                   inventory |-> Validator_validate_positive_number(inventory).ret,
                   unit |-> Validator_validate_string(unit).ret,
                   min_threshold |-> Validator_validate_positive_number(min_threshold).ret]]
    ELSE [ok |-> FALSE, obj |-> NoRawReagent]

\* raw constructor arguments
RawNames == {StrVal("A", FALSE), StrVal("A", TRUE), StrVal("", FALSE), StrVal("", TRUE),
             NumVal(5)}

RawDescriptions == {StrVal("acid", FALSE), StrVal("", TRUE), NumVal(5)}

RawCategories == {StrVal("acids", TRUE), StrVal("", FALSE), NoneVal}

RawUnits == {StrVal("mL", FALSE), StrVal("mL", TRUE), StrVal("", TRUE)}

RawCosts == {NumVal(2), NumVal(0), NumVal(0 - 1), NumStrVal(2), StrVal("abc", FALSE),
             NoneVal}

RawInventories == {NumVal(3), NumVal(0), NumStrVal(3), NoneVal}

RawThresholds == {NumVal(1), NumVal(0 - 1), NumStrVal(1), StrVal("abc", FALSE)}

RawReagentInputs ==
    [name : RawNames, description : RawDescriptions, cost : RawCosts,
     category : RawCategories, inventory : RawInventories, unit : RawUnits,
     min_threshold : RawThresholds]

\* Reagent(name, description, cost, category, inventory, unit, min_threshold)
NewReagent ==
    /\ Modular
    /\ last.op = "arguments"
    /\ LET a == last.amount.args
           r == Reagent_init(a.name, a.description, a.cost, a.category, a.inventory,
                             a.unit, a.min_threshold)
       IN last' = Call("Reagent", IF r.ok THEN "ok" ELSE "raise",
                       IF r.ok THEN "none" ELSE "value_error", "none",
                       [args |-> a, obj |-> r.obj])
    /\ UNCHANGED <<impl, data_file, threads, now, modularVars, monolithVars, experiment>>

LQ_NewReagent ==
    /\ Monolith
    /\ last.op = "arguments"
    /\ LET a == last.amount.args
           r == LQ_Reagent_init(a.name, a.description, a.cost, a.category, a.inventory,
                                a.unit, a.min_threshold)
       IN last' = Call("Reagent", IF r.ok THEN "ok" ELSE "raise",
                       IF r.ok THEN "none" ELSE "value_error", "none",
                       [args |-> a, obj |-> r.obj])
    /\ UNCHANGED <<impl, data_file, threads, now, modularVars, monolithVars, experiment>>

NextConstruct ==
    \/ NewReagent
    \/ LQ_NewReagent

\* an empty laboratory and the arguments of the next construction
InitConstruct ==
    /\ impl \in Impls
    /\ now = 0
    /\ reagents = EmptyDict
    /\ suppliers = {}
    /\ order_history = <<>>
    /\ recipes = EmptyDict
    /\ results_history = <<>>
    /\ lab_reagents = <<>>
    /\ lab_suppliers = {}
    /\ lab_recipes = EmptyDict
    /\ experiments = <<>>
    /\ experiment = NoExperiment
    /\ data_file = NoFile
    /\ threads = NoThreads
    /\ \E a \in RawReagentInputs :
          last = Call("arguments", "ok", "none", "none",
                      [args |-> a, obj |-> NoRawReagent])

SpecConstruct == InitConstruct /\ [][NextConstruct]_vars

\* a string that is neither empty nor blank
GoodString(v) == v.type = "str" /\ v.text # ""

\* a number greater than 0, as a number or written as a numeric string
GoodNumber(v) == v.type \in {"num", "numstr"} /\ v.value > 0

StringFields == {"name", "description", "category", "unit"}

NumberFields == {"cost", "inventory", "min_threshold"}

(* C23: constructing a Reagent fails exactly when a string field is no
   string or is empty or blank, or when cost, inventory or min_threshold is
   no number greater than 0, and then no reagent exists; when it succeeds
   every stored string field is the trimmed argument and every stored
   numeric field is the validated number. *)
C23_ReagentConstruction ==
    [][ last'.op = "Reagent" =>
            LET a == last'.amount.args
                obj == last'.amount.obj
                valid == /\ \A f \in StringFields : GoodString(a[f])
                         /\ \A f \in NumberFields : GoodNumber(a[f])
            IN /\ last'.outcome = "ok" <=> valid
               /\ last'.outcome # "ok" => obj = NoRawReagent
               /\ last'.outcome = "ok" =>
                     /\ \A f \in StringFields : obj[f] = StrVal(a[f].text, FALSE)
                     /\ \A f \in NumberFields : obj[f] = NumVal(a[f].value) ]_vars

----------------------------------------------------------------------------
(* The recipes the system holds *)

\* LaboratorySystem.remove_recipe: [ok, recipes]
remove_recipe(rcps, recipe_name) ==
    IF recipe_name \in DOMAIN rcps
    THEN [ok |-> TRUE, recipes |-> Del(rcps, recipe_name)]
    ELSE [ok |-> FALSE, recipes |-> rcps]

\* recipes offered for construction: the catalogue, one without expected
\* results, one with an inverted range, one without procedure
RecipeBookInputs ==
    RecipeInputs \cup
    { [name |-> "R4", reagents |-> <<Need("A", 1)>>, procedure |-> <<"mix">>,
       expected_results |-> EmptyDict],
      [name |-> "R5", reagents |-> <<Need("A", 1)>>, procedure |-> <<"mix">>,
       expected_results |-> ("pH" :> TupleRange(8, 6))],
      [name |-> "R6", reagents |-> <<Need("B", 1)>>, procedure |-> <<>>,
       expected_results |-> ("pH" :> TupleRange(6, 8))] }

RemoveRecipe ==
    /\ Modular
    /\ \E n \in {ri.name : ri \in RecipeBookInputs} :
          LET r == remove_recipe(recipes, n)
          IN /\ recipes' = r.recipes
             /\ last' = Call("remove_recipe", IF r.ok THEN "ok" ELSE "fail", "none", n, 0)
    /\ UNCHANGED <<impl, data_file, threads, now, reagents, suppliers, order_history, results_history,
                   monolithVars, experiment>>

NextRecipeBook ==
    \/ AddRecipe(RecipeBookInputs)
    \/ RemoveRecipe
    \/ LQ_AddRecipe(RecipeBookInputs)

SpecRecipeBook == Init /\ [][NextRecipeBook]_vars

(* C24: every recipe the system holds has at least one reagent, at least one
   expected result, and min <= max in every expected range, because the
   constructor accepts no other recipe. *)
C24_HeldRecipesWellFormed ==
    \A n \in DOMAIN KnownRecipes :
        /\ KnownRecipes[n].reagents # <<>>
        /\ DOMAIN KnownRecipes[n].expected_results # {}
        /\ \A m \in DOMAIN KnownRecipes[n].expected_results :
              KnownRecipes[n].expected_results[m].lo <= KnownRecipes[n].expected_results[m].hi

----------------------------------------------------------------------------
(* The history of experiments *)

MaxLog == 2           \* experiments recorded in the history runs

NextHistory ==
    \/ AddReagent
    \/ RemoveReagent
    \/ UpdateStock
    \/ RegisterSupplier
    \/ PlaceOrder(MaxOrders)
    \/ ReceiveOrder(1..MaxOrders)
    \/ AddRecipe(RecipeInputs)
    \/ PerformExperiment(MaxLog)
    \/ LQ_AddReagent
    \/ LQ_UpdateInventory(Amounts)
    \/ LQ_AddSupplier
    \/ LQ_PlaceOrder(MaxOrders)
    \/ LQ_ReceiveOrder(0..0)
    \/ LQ_AddRecipe(RecipeInputs)
    \/ LQ_PerformExperiment(MaxLog)

SpecHistory == Init /\ [][NextHistory]_vars

(* C25: the history is append-only: a successful perform_experiment adds
   exactly one entry at the end, and every other call, a failed
   perform_experiment included, leaves the history as it was, entry by
   entry and in the same order. *)
C25_AppendOnlyHistory ==
    [][ IF last'.op = "perform_experiment" /\ last'.outcome = "ok"
        THEN /\ Len(History') = Len(History) + 1
             /\ SubSeq(History', 1, Len(History)) = History
        ELSE History' = History ]_vars

\* a second experiment has just been appended to the history
C25_Witness ==
    /\ last.op = "perform_experiment"
    /\ last.outcome = "ok"
    /\ Len(History) = 2

----------------------------------------------------------------------------
(* perform_experiment called from two threads.  A call goes through its    *)
(* three stages one step at a time: the availability loop, then the        *)
(* experiment with the stock loop, then the recording.  threads holds the  *)
(* host's choice (mode "locked": a call holds one lock from its first to   *)
(* its last step; "unlocked": no lock), the lock holder, and each thread's *)
(* position and local variables.                                           *)

ThreadIds == {1, 2}

IdleCall ==
    [pc |-> "idle", recipe_name |-> "none", responsible_people |-> <<>>,
     measurements |-> EmptyDict, experiment |-> NoExperiment,
     refused |-> FALSE, recorded |-> FALSE]

\* thread t moves to position pc with its locals changed to call
Moved(t, call, release) ==
    [threads EXCEPT !.call[t] = call,
                    !.holder = IF threads.mode # "locked" THEN 0
                               ELSE IF release THEN 0 ELSE t]

\* the lock lets thread t take its first step
MayEnter(t) == threads.mode = "locked" => threads.holder = 0

\* some amount of the stock loop did not come off its reagent
Refused(needs, rs, after) ==
    \E i \in DOMAIN needs :
        \/ needs[i].name \notin DOMAIN rs
        \/ after[needs[i].name].inventory # rs[needs[i].name].inventory - needs[i].amount

\* perform_experiment, lines 104-112: the recipe lookup and the availability loop
PerformCheck(t) ==
    /\ Modular
    /\ threads.call[t].pc = "idle"
    /\ MayEnter(t)
    /\ \E rn \in RecipeNames, people \in PeopleInputs, ms \in MeasurementInputs :
          LET call == [IdleCall EXCEPT !.recipe_name = rn, !.responsible_people = people,
                                       !.measurements = ms]
          IN IF rn \in DOMAIN recipes /\ availability(recipes[rn].reagents, reagents)
             THEN /\ threads' = Moved(t, [call EXCEPT !.pc = "checked"], FALSE)
                  /\ last' = last
             ELSE /\ threads' = Moved(t, [call EXCEPT !.pc = "done"], TRUE)
                  /\ last' = Call("perform_experiment", "fail",
                                  IF rn \in DOMAIN recipes THEN "unavailable"
                                  ELSE "no_recipe", rn, 0)
    /\ UNCHANGED <<impl, data_file, now, modularVars, monolithVars, experiment>>

\* perform_experiment, lines 114-130: the experiment, its measurements and
\* the stock loop
PerformDebit(t) ==
    /\ Modular
    /\ threads.call[t].pc = "checked"
    /\ LET call == threads.call[t]
           recipe == recipes[call.recipe_name]
           e == Experiment(recipe, call.responsible_people)
           rec == record_all(e.obj, call.measurements, DOMAIN call.measurements)
           debited == debit(recipe.reagents, reagents, 1)
       IN IF ~e.ok \/ rec.raised
          THEN /\ threads' = Moved(t, [call EXCEPT !.pc = "done"], TRUE)
               /\ reagents' = reagents
               /\ last' = Call("perform_experiment", "raise",
                               IF ~e.ok THEN "no_people" ELSE "zero_division",
                               call.recipe_name, 0)
          ELSE /\ threads' = Moved(t, [call EXCEPT
                                          !.pc = "debited",
                                          !.experiment = rec.obj,
                                          !.refused = Refused(recipe.reagents, reagents,
                                                              debited)], FALSE)
               /\ reagents' = debited
               /\ last' = last
    /\ UNCHANGED <<impl, data_file, now, suppliers, order_history, recipes, results_history,
                   monolithVars, experiment>>

\* perform_experiment, line 140: result_manager.add_result
PerformRecord(t) ==
    /\ Modular
    /\ threads.call[t].pc = "debited"
    /\ LET call == threads.call[t]
           added == add_result(results_history, call.experiment, "")
       IN /\ threads' = Moved(t, [call EXCEPT !.pc = "done",
                                              !.recorded = ~added.raised], TRUE)
          /\ results_history' = added.results_history
          /\ last' = Call("perform_experiment", IF added.raised THEN "raise" ELSE "ok",
                          IF added.raised THEN "attribute_error" ELSE "none",
                          call.recipe_name, 0)
    /\ UNCHANGED <<impl, data_file, now, reagents, suppliers, order_history, recipes,
                   monolithVars, experiment>>

LQ_Refused(needs, rs, after) ==
    \E i \in DOMAIN needs :
        \/ ~DictHas(rs, needs[i].name)
        \/ DictGet(after, needs[i].name).inventory
             # DictGet(rs, needs[i].name).inventory - needs[i].amount

\* Laboratorio Quimico.py perform_experiment, lines 381-396: the recipe lookup
\* and the availability loop
LQ_PerformCheck(t) ==
    /\ Monolith
    /\ threads.call[t].pc = "idle"
    /\ MayEnter(t)
    /\ \E rn \in RecipeNames, people \in LQ_PeopleInputs, ms \in MeasurementInputs :
          LET call == [IdleCall EXCEPT !.recipe_name = rn, !.responsible_people = people,
                                       !.measurements = ms]
              check == IF rn \notin DOMAIN lab_recipes THEN "no_recipe"
                       ELSE LQ_availability(lab_recipes[rn].reagents, lab_reagents, now)
          IN IF check = "ok"
             THEN /\ threads' = Moved(t, [call EXCEPT !.pc = "checked"], FALSE)
                  /\ last' = last
             ELSE /\ threads' = Moved(t, [call EXCEPT !.pc = "done"], TRUE)
                  /\ last' = Call("perform_experiment", "fail", check, rn, 0)
    /\ UNCHANGED <<impl, data_file, now, modularVars, monolithVars, experiment>>

\* Laboratorio Quimico.py perform_experiment, lines 398-413: the experiment,
\* its measurements, its validation and the stock loop
LQ_PerformDebit(t) ==
    /\ Monolith
    /\ threads.call[t].pc = "checked"
    /\ LET call == threads.call[t]
           recipe == lab_recipes[call.recipe_name]
           created == LQ_Experiment(recipe, call.responsible_people)
           recorded == LQ_record_all(created, call.measurements, DOMAIN call.measurements)
           validated == [recorded EXCEPT !.success = LQ_validate_results(recorded)]
           debited == LQ_debit(recipe.reagents, lab_reagents)
       IN /\ threads' = Moved(t, [call EXCEPT
                                     !.pc = "debited",
                                     !.experiment = validated,
                                     !.refused = LQ_Refused(recipe.reagents, lab_reagents,
                                                            debited)], FALSE)
          /\ lab_reagents' = debited
          /\ last' = last
    /\ UNCHANGED <<impl, data_file, now, modularVars, lab_suppliers, lab_recipes, experiments,
                   experiment>>

\* Laboratorio Quimico.py perform_experiment, lines 415-427: the cost and the
\* append to the experiments
LQ_PerformRecord(t) ==
    /\ Monolith
    /\ threads.call[t].pc = "debited"
    /\ LET call == threads.call[t]
           recipe == lab_recipes[call.recipe_name]
           costed == [call.experiment EXCEPT !.cost = LQ_cost(recipe.reagents, lab_reagents)]
       IN /\ threads' = Moved(t, [call EXCEPT !.pc = "done", !.experiment = costed,
                                              !.recorded = TRUE], TRUE)
          /\ experiments' = LQ_record_experiment(experiments, costed)
          /\ last' = Call("perform_experiment", "ok", "none", call.recipe_name, 0)
    /\ UNCHANGED <<impl, data_file, now, modularVars, lab_reagents, lab_suppliers,
                   lab_recipes, experiment>>

\* a stocked laboratory with two recipes, the host's choice of locking made
InitThreads ==
    /\ impl \in Impls
    /\ now = 0
    /\ reagents = IF impl = "modular"
                  THEN ("A" :> Reagent("A", 2, 3, 1, NoDate).obj)
                       @@ ("B" :> Reagent("B", 3, 2, 1, <<1>>).obj)
                  ELSE EmptyDict
    /\ lab_reagents = IF impl = "monolith"
                      THEN <<LQ_Reagent("A", 2, 3, 1, NoDate).obj,
                             LQ_Reagent("B", 3, 2, 1, <<1>>).obj>>
                      ELSE <<>>
    /\ suppliers = {}
    /\ order_history = <<>>
    /\ recipes = IF impl = "modular"
                 THEN [n \in {"R1", "R2"} |->
                          LET ri == CHOOSE x \in RecipeInputs : x.name = n
                          IN Recipe(ri.name, ri.reagents, ri.procedure,
                                    ri.expected_results).obj]
                 ELSE EmptyDict
    /\ results_history = <<>>
    /\ lab_suppliers = {}
    /\ lab_recipes = IF impl = "monolith"
                     THEN [n \in {"R1", "R2"} |->
                              LET ri == CHOOSE x \in RecipeInputs : x.name = n
                              IN LQ_Recipe(ri.name, ri.reagents, ri.expected_results,
                                           ri.procedure).obj]
                     ELSE EmptyDict
    /\ experiments = <<>>
    /\ experiment = NoExperiment
    /\ data_file = NoFile
    /\ \E mode \in {"locked", "unlocked"} :
          threads = [mode |-> mode, holder |-> 0, call |-> [t \in ThreadIds |-> IdleCall]]
    /\ last = NoCall

NextThreads ==
    \E t \in ThreadIds :
        \/ PerformCheck(t)
        \/ PerformDebit(t)
        \/ PerformRecord(t)
        \/ LQ_PerformCheck(t)
        \/ LQ_PerformDebit(t)
        \/ LQ_PerformRecord(t)

SpecThreads == InitThreads /\ [][NextThreads]_vars

\* a reagent with negative stock, or a recorded experiment whose stock loop
\* left an amount on its reagent
BadState ==
    \/ \E n \in PresentNames : Stock(n).inventory < 0
    \/ \E t \in ThreadIds : threads.call[t].recorded /\ threads.call[t].refused

(* C26: when every perform_experiment call runs under one lock from its
   availability check to its recording, no reagent ever has negative stock
   and no experiment is recorded without its debit; without the lock two
   calls on the same reagent, interleaved step by step, reach such a state. *)
C26_AtomicCallsAreSafe == threads.mode = "locked" => ~BadState

\* two unlocked calls have interleaved and a reagent's stock is negative
C26_Witness ==
    /\ threads.mode = "unlocked"
    /\ \A t \in ThreadIds : threads.call[t].pc = "done" /\ threads.call[t].recorded
    /\ BadState

----------------------------------------------------------------------------
(* Deviation from the midpoint of a range *)

\* calculators.py ResultCalculator.evaluate_measurement: [raised, is_valid,
\* deviation]; deviation = ((value - target) / target) * 100 with
\* target = (min + max) / 2, kept as the fraction num / den; a target of 0
\* raises ZeroDivisionError
evaluate_measurement(value, min_val, max_val) ==
    LET is_valid == min_val <= value /\ value <= max_val
    IN IF min_val + max_val = 0
       THEN [raised |-> TRUE, is_valid |-> is_valid, deviation |-> [num |-> 0, den |-> 1]]
       ELSE [raised |-> FALSE, is_valid |-> is_valid,
             deviation |-> [num |-> (2 * value - (min_val + max_val)) * 100,
                            den |-> min_val + max_val]]

\* ResultCalculator.evaluate_measurement(value, min_val, max_val) on a range
\* of the experiment's recipe
EvaluateMeasurement ==
    /\ Modular
    /\ \E m \in DOMAIN experiment.recipe.expected_results, v \in ExperimentValues :
          LET range == experiment.recipe.expected_results[m]
              r == evaluate_measurement(v, range.lo, range.hi)
          IN last' = Call("evaluate_measurement",
                          IF r.raised THEN "raise" ELSE IF r.is_valid THEN "ok" ELSE "fail",
                          IF r.raised THEN "zero_division" ELSE "none", m, v)
    /\ UNCHANGED <<impl, data_file, threads, now, modularVars, monolithVars, experiment>>

NextDeviation ==
    \/ RecordResult
    \/ LQ_RecordResult
    \/ EvaluateMeasurement

SpecDeviation == InitExperiment /\ [][NextDeviation]_vars

(* C27: record_result, and the deviation computed for a measurement, never
   end in an unhandled error, not even for a range whose midpoint is 0; after
   every record_result each recorded measurement that the recipe declares
   has its validation stored beside its value. *)
C27_MidpointZeroGuarded ==
    [][ /\ last'.op \in {"record_result", "evaluate_measurement"} =>
              last'.outcome # "raise"
        /\ last'.op = "record_result" =>
              \A m \in DOMAIN experiment'.results
                         \cap DOMAIN experiment.recipe.expected_results :
                  m \in DOMAIN experiment'.measurement_validations ]_vars

----------------------------------------------------------------------------
(* C28: update_inventory(0, reason) is rejected or does nothing: the
   inventory keeps its value and neither purchase_history nor usage_history
   gets a record. *)
C28_ZeroAmountIsNoOp ==
    [][ (UpdateStep /\ last'.amount = 0) =>
            Untouched(Stock(last'.name), StockNext(last'.name)) ]_vars

----------------------------------------------------------------------------
(* C29: the ledger of a reagent is consistent.  For a reagent constructed
   with inventory I0 and empty histories, after any sequence of
   update_inventory calls the inventory equals I0 plus the sum of the amounts
   of all records of purchase_history and usage_history, every record of
   purchase_history has amount > 0, every record of usage_history has
   amount <= 0, and the record appended by the latest call carries the
   current inventory as its new_level. *)
RECURSIVE LedgerSum(_)
LedgerSum(hist) ==
    IF hist = <<>> THEN 0 ELSE hist[1].amount + LedgerSum(Tail(hist))

Ledger(r) == LedgerSum(r.purchase_history) + LedgerSum(r.usage_history)

SignedHistories(r) ==
    /\ \A i \in 1..Len(r.purchase_history) : r.purchase_history[i].amount > 0
    /\ \A i \in 1..Len(r.usage_history) : r.usage_history[i].amount <= 0

\* the record the latest call appended, when it appended one
LatestRecordIsCurrent(r) ==
    (last.op = "update_inventory" /\ last.outcome = "ok") =>
        LET hist == IF last.amount > 0 THEN r.purchase_history ELSE r.usage_history
        IN /\ hist # <<>>
           /\ hist[Len(hist)].amount = last.amount
           /\ hist[Len(hist)].new_level = r.inventory

C29_LedgerConsistency ==
    \A I0 \in ScenarioInventories :
        (Stock("Acid").inventory = I0) =>
            [](/\ Stock("Acid").inventory = I0 + Ledger(Stock("Acid"))
               /\ SignedHistories(Stock("Acid"))
               /\ LatestRecordIsCurrent(Stock("Acid")))

C29_Witness ==
    /\ last.op = "update_inventory"
    /\ last.outcome = "ok"
    /\ Len(Stock("Acid").purchase_history) >= 1
    /\ \E i \in 1..Len(Stock("Acid").usage_history) :
          Stock("Acid").usage_history[i].amount < 0

----------------------------------------------------------------------------
(* C30: validation tracks the latest value.  After any sequence of
   record_result calls on one Experiment, the same measurement recorded
   several times included, results holds the last value recorded for each
   measurement; every measurement declared in the recipe's expected_results
   that has been recorded has a validation whose is_valid equals
   (min <= results[measurement] <= max) for the current value; and the
   verdict of validate_results is the one the last values give. *)
InRangeNow(e, m) ==
    /\ e.recipe.expected_results[m].lo <= e.results[m]
    /\ e.results[m] <= e.recipe.expected_results[m].hi

\* results after record_result(m, v): v under m, the other entries as before
HoldsLastValue(e, e2, m, v) ==
    /\ DOMAIN e2.results = DOMAIN e.results \cup {m}
    /\ e2.results[m] = v
    /\ \A k \in DOMAIN e.results \ {m} : e2.results[k] = e.results[k]

ValidationsCurrent(e) ==
    \A m \in DOMAIN e.recipe.expected_results \cap DOMAIN e.results :
        /\ m \in DOMAIN e.measurement_validations
        /\ e.measurement_validations[m].is_valid <=> InRangeNow(e, m)

\* the verdict of validate_results computed from the last values alone
VerdictOnLastValues(e) ==
    IF Modular
    THEN /\ DOMAIN e.results # {}
         /\ DOMAIN e.recipe.expected_results # {}
         /\ \A m \in DOMAIN e.recipe.expected_results \cap DOMAIN e.results :
               InRangeNow(e, m)
    ELSE \A m \in DOMAIN e.recipe.expected_results :
            m \in DOMAIN e.results /\ InRangeNow(e, m)

C30_ValidationTracksLatest ==
    [][ /\ last'.op = "record_result" =>
              /\ HoldsLastValue(experiment, experiment', last'.name, last'.amount)
              /\ ValidationsCurrent(experiment')
        /\ last'.op = "validate_results" =>
              (last'.outcome = "ok" <=> VerdictOnLastValues(experiment)) ]_vars

====
